---------------------------- MODULE Spec2Model ----------------------------
(***************************************************************************)
(* A model of the beyond-os1k kernel core (32-bit RISC-V, single hart):    *)
(* the process table and round-robin scheduler (scheduler.rs), process     *)
(* creation (process.rs), the trap entry/exit stubs (entry.rs), the trap   *)
(* handler and system-call dispatch (trap.rs).                             *)
(*                                                                         *)
(* Assembly routines are modelled instruction by instruction on the CSRs,  *)
(* the stack pointer and the stack memory; Rust functions are modelled at  *)
(* statement level, one step per lock section.  Stack memory is a map from *)
(* the lowest byte address of a frame to the frame (a trap frame, a parked *)
(* image, or the saved state of a Rust caller).  Addresses are byte        *)
(* addresses; sstatus is a bit mask.                                       *)
(***************************************************************************)
EXTENDS Integers, Sequences, FiniteSets, TLC

VARIABLES
    procs,          \* PROCS: slot index -> [pid, state, is_kernel, sp]
    current_proc,   \* CURRENT_PROC (the pid inside Some(..))
    first_switch,   \* FIRST_SWITCH
    lock_cur,       \* the CURRENT_PROC spinlock is held
    lock_procs,     \* the PROCS spinlock is held
    lock_files,     \* the FILES spinlock is held
    sstatus,        \* CSRs
    sepc,
    sscratch,
    satp,
    scause,
    mode,           \* privilege mode: "S" or "U"
    sp,             \* the stack pointer register
    ctl,            \* the executing code point and its registers / locals
    mem,            \* stack memory: frame base address -> frame
    timer_armed,    \* sie.STIE is set and a tick has been requested
    switched,       \* history: some switch_context has run to its ret
    ticks,          \* history: timer interrupts delivered so far
    ecalls          \* history: system calls made so far

vars == <<procs, current_proc, first_switch, lock_cur, lock_procs,
          lock_files, sstatus, sepc, sscratch, satp, scause, mode, sp, ctl,
          mem, timer_armed, switched, ticks, ecalls>>

---------------------------------------------------------------------------
(* Program constants *)

PROCS_MAX == 8
IDLE_PID == 0
STACK_BYTES == 8192
PCB_HEADER_BYTES == 16
SLOT_BYTES == PCB_HEADER_BYTES + STACK_BYTES
WORD == 4

SSTATUS_SIE == 2
SSTATUS_SPIE == 32
SSTATUS_SPP == 256
SSTATUS_SUM == 262144

SCAUSE_ECALL == 8
\* 0x80000005 does not fit TLC's integers; the interrupt bit is kept as a
\* separate decimal digit group: interrupt * 1000 + code.
SCAUSE_TIMER_INTERRUPT == 1005

USER_BASE == 16777216

SYS_PUTBYTE == 1
SYS_GETCHAR == 2
SYS_EXIT == 3
SYS_READFILE == 4
SYS_WRITEFILE == 5

\* Link-time addresses (kernel.ld is not part of the sources; any layout with
\* disjoint regions does).
BootStackTop == 524288
ProcsBase == 1048576
TextBase == 2097152

Slots == 0 .. PROCS_MAX - 1

---------------------------------------------------------------------------
(* Bit masks *)

HasBit(x, b) == (x \div b) % 2 = 1
SetBit(x, b) == IF HasBit(x, b) THEN x ELSE x + b
ClrBit(x, b) == IF HasBit(x, b) THEN x - b ELSE x

---------------------------------------------------------------------------
(* Layout of PROCS: #[repr(C)] Process { pid, state, is_kernel, sp,        *)
(* page_table, stack }, PROCS_MAX of them back to back.                    *)

SlotBase(i) == ProcsBase + i * SLOT_BYTES
PidAddr(i) == SlotBase(i)
SpAddr(i) == SlotBase(i) + 8
StackBase(i) == SlotBase(i) + PCB_HEADER_BYTES
StackEnd(i) == SlotBase(i) + SLOT_BYTES
ProcsEnd == SlotBase(PROCS_MAX)

InStack(i, a) == StackBase(i) <= a /\ a < StackEnd(i)

\* Process::empty()
EmptyProcess == [pid |-> 0, state |-> "Unused", is_kernel |-> FALSE, sp |-> 0]

---------------------------------------------------------------------------
(* Procs::try_get_index and Procs::get_next *)

\* iter().position(|p| p.pid == pid): the first index, or -1 for None
RECURSIVE Position(_, _, _)
Position(ps, pid, i) ==
    IF i >= PROCS_MAX THEN -1
    ELSE IF ps[i].pid = pid THEN i
    ELSE Position(ps, pid, i + 1)

try_get_index(ps, pid) == Position(ps, pid, 0)

\* iter().cycle().skip(skip).take(PROCS_MAX).find(..).map(|p| p.pid)
\*       .unwrap_or(IDLE_PID), element by element
RECURSIVE CycleFind(_, _, _)
CycleFind(ps, at, taken) ==
    IF taken >= PROCS_MAX THEN IDLE_PID
    ELSE LET p == ps[at % PROCS_MAX] IN
         IF p.state = "Runnable" /\ p.pid # IDLE_PID THEN p.pid
         ELSE CycleFind(ps, at + 1, taken + 1)

get_next_skip_current(ps, current_index) == CycleFind(ps, current_index, 0)

get_next_scan(ps, current_index) == CycleFind(ps, current_index + 1, 0)

\* A scan that stops short of current's own slot.
get_next_others(ps, current_pid) ==
    LET current_index == try_get_index(ps, current_pid) IN
    IF current_index = -1 THEN -1 ELSE CycleFind(ps, current_index + 1, 1)

\* get_next(current_pid); -1 when the .expect on the index panics
get_next(ps, current_pid) ==
    LET current_index == try_get_index(ps, current_pid) IN
    IF current_index = -1 THEN -1 ELSE get_next_scan(ps, current_index)


---------------------------------------------------------------------------
(* Model bounds *)

\* Trap frames that may be live on one kernel stack (nesting of traps).
MaxNest == 2
\* Timer interrupts delivered, and system calls made, in one run.
MaxTicks == 4
MaxEcalls == 1
\* Words of stack a Rust activation (saved return address, spilled locals)
\* occupies; the compiler's choice, not visible in the sources.
FrameWords == 8

FrameBytes == FrameWords * WORD
TrapFrameBytes == 32 * WORD
SwitchImageBytes == 17 * WORD

---------------------------------------------------------------------------
(* Kernel code points.  A code point's address is what sepc and ra hold.   *)

Labels == <<
    "km_init", "km_create", "km_yield", "km_unreachable",
    "cp_entry", "cp_locked", "cp_ret",
    "idle_process", "proc_a_entry", "proc_b_entry", "proc_run",
    "user_entry", "ue_sstatus", "ue_sret",
    "ht_entry", "ht_sys_ret", "ht_ret",
    "kr_regs", "kr_sret",
    "hs_entry", "hs_getchar", "hs_exit", "hs_exit_cur_locked",
    "hs_exit_mark", "hs_exit_procs_locked", "hs_exit_unreachable", "hs_ret",
    "hs_file", "hs_file_lock", "hs_file_locked",
    "yn_entry", "yn_cur_locked", "yn_scan", "yn_scan_locked", "yn_ptrs",
    "yn_ptrs_locked", "yn_set", "yn_set_locked", "yn_switch", "yn_ret",
    "sw_restored", "sw_popped", "sw_ret", "panic" >>

LabelIndex(l) == CHOOSE i \in 1 .. Len(Labels) : Labels[i] = l
PcAddr(l) == TextBase + WORD * LabelIndex(l)
IsTextAddr(a) == \E i \in 1 .. Len(Labels) : a = TextBase + WORD * i
LabelAt(a) == Labels[(a - TextBase) \div WORD]

\* User code: _start, the ecall of sys_call and the instruction after it.
UserStart == USER_BASE
UserEcallPc == USER_BASE + 8
UserStackTop == USER_BASE + 65536
IsUserAddr(a) == a >= USER_BASE

\* Registers and locals of the executing activation.  res: the register set
\* kernel_return has reloaded for the code sret is about to resume.
\* History carried by a frame: what wrote it and the machine state it saw.
G0 == [cause |-> 0, mode |-> "S", sp |-> 0, sscratch |-> 0, by |-> ""]

Ctl0 == [pc |-> "km_init", ra |-> 0, t0 |-> 0, a0 |-> 0, a2 |-> 0, a3 |-> 0,
         a7 |-> 0,
         cur |-> 0, nxt |-> 0, prev_ptr |-> 0, next_ptr |-> 0,
         user_pc |-> 0, f |-> 0, upc |-> 0, n |-> 0,
         csrsi |-> FALSE, res |-> <<>>, g |-> G0]

At(l) == [Ctl0 EXCEPT !.pc = l]

Terminal == {"panic", "wild"}

---------------------------------------------------------------------------
(* Stack memory *)

Overlap(b1, s1, b2, s2) == b1 < b2 + s2 /\ b2 < b1 + s1

\* Writing a frame at b destroys whatever frames it overlaps.
Push(m, b, fr) ==
    [a \in {x \in DOMAIN m : ~Overlap(x, m[x].size, b, fr.size)} \cup {b} |->
        IF a = b THEN fr ELSE m[a]]

Drop(m, b) == [a \in DOMAIN m \ {b} |-> m[a]]

HasFrame(m, a, kind) == a \in DOMAIN m /\ m[a].k = kind

\* The kernel stack an address belongs to (a slot index), -1 for the boot
\* stack.  One word past a stack's end still counts as that stack.
Region(a) ==
    IF a > ProcsBase /\ a <= ProcsEnd + WORD
    THEN (a - ProcsBase - WORD - 1) \div SLOT_BYTES
    ELSE -1

TrapDepth(m, a) ==
    Cardinality({x \in DOMAIN m : m[x].k = "trap" /\ Region(x) = Region(a)})

\* A store of one word: only the words of the PCB headers are tracked here.
StoreWord(ps, a, v) ==
    [i \in Slots |->
        IF a = SpAddr(i) THEN [ps[i] EXCEPT !.sp = v]
        ELSE IF a = PidAddr(i) THEN [ps[i] EXCEPT !.pid = v]
        ELSE ps[i]]

\* The values a load of one word outside the stack frames may yield: a PCB
\* header word, or (outside PROCS) whatever the neighbouring static holds.
UnknownWords == {0, 1}
WordValues(ps, a) ==
    IF \E i \in Slots : a = PidAddr(i)
    THEN {ps[CHOOSE i \in Slots : a = PidAddr(i)].pid}
    ELSE IF \E i \in Slots : a = SpAddr(i)
    THEN {ps[CHOOSE i \in Slots : a = SpAddr(i)].sp}
    ELSE UnknownWords


---------------------------------------------------------------------------
(* Hardware: trap delivery and sret *)

\* sstatus after the hart takes a trap: SPIE := SIE, SIE := 0, SPP := mode
TrapSstatus(sst, m) ==
    LET a == IF HasBit(sst, SSTATUS_SIE) THEN SetBit(sst, SSTATUS_SPIE)
             ELSE ClrBit(sst, SSTATUS_SPIE)
        b == ClrBit(a, SSTATUS_SIE)
    IN  IF m = "S" THEN SetBit(b, SSTATUS_SPP) ELSE ClrBit(b, SSTATUS_SPP)

\* sstatus after sret: SIE := SPIE, SPIE := 1, SPP := 0
SretSstatus(sst) ==
    LET a == IF HasBit(sst, SSTATUS_SPIE) THEN SetBit(sst, SSTATUS_SIE)
             ELSE ClrBit(sst, SSTATUS_SIE)
    IN  ClrBit(SetBit(a, SSTATUS_SPIE), SSTATUS_SPP)

SretMode(sst) == IF HasBit(sst, SSTATUS_SPP) THEN "S" ELSE "U"

\* The address of the instruction the hart is at.
CurrentPc == IF mode = "U" THEN ctl.upc ELSE PcAddr(ctl.pc)

---------------------------------------------------------------------------
(* kernel_entry, instruction by instruction, up to the call of handle_trap *)

\* csrrw sp, sscratch, sp ; bnez sp, 1f ; csrr sp, sscratch ; 1: addi sp, -128
kernel_entry_sp(sp0, ssc0) == (IF ssc0 # 0 THEN ssc0 ELSE sp0) - TrapFrameBytes

\* csrr a0, sscratch ; bnez a0, 2f ; the two stores of either branch.
\* After the csrrw, sscratch holds the sp the trap arrived with.
kernel_entry_slots(sp0, ssc0) ==
    LET sp3 == kernel_entry_sp(sp0, ssc0)
        a0 == sp0
    IN  IF a0 = 0 THEN <<sp3, 0>> ELSE <<a0, sp3 + TrapFrameBytes>>

\* The hart takes a trap with the given cause while the registers are c; at
\* most nest trap frames are then live on that stack.
kernel_entry(cause, c, nest) ==
    LET sp3 == kernel_entry_sp(sp, sscratch)
        x == kernel_entry_slots(sp, sscratch)
        fr == [k |-> "trap", size |-> TrapFrameBytes, c |-> <<c>>, x |-> x,
               g |-> [cause |-> cause, mode |-> mode, sp |-> sp,
                      sscratch |-> sscratch, by |-> "trap"]]
    IN  /\ TrapDepth(mem, sp3) < nest
        /\ sepc' = CurrentPc
        /\ scause' = cause
        /\ sstatus' = TrapSstatus(sstatus, mode)
        /\ mode' = "S"
        /\ sscratch' = 0
        /\ sp' = sp3
        /\ mem' = Push(mem, sp3, fr)
        /\ procs' = StoreWord(StoreWord(procs, sp3 + 30 * WORD, x[1]),
                              sp3 + 31 * WORD, x[2])
        /\ ctl' = [At("ht_entry") EXCEPT !.f = sp3]
        /\ UNCHANGED <<current_proc, first_switch, lock_cur, lock_procs,
                       lock_files, satp, switched>>

\* The timer interrupt: deliverable in user mode or with sstatus.SIE set,
\* in the wfi loop of the panic handler as anywhere else.  The tick that
\* was programmed has then been used up.
TimerInterrupt ==
    /\ timer_armed
    /\ ctl.pc # "wild"
    /\ mode = "U" \/ HasBit(sstatus, SSTATUS_SIE)
    /\ ticks < MaxTicks
    /\ ticks' = ticks + 1
    /\ timer_armed' = FALSE
    /\ UNCHANGED ecalls
    /\ kernel_entry(SCAUSE_TIMER_INTERRUPT, ctl, MaxNest)


---------------------------------------------------------------------------
(* Rust calls: the callee's activation holds the caller's state *)

RustFrame(ret) ==
    [k |-> "rust", size |-> FrameBytes, c |-> <<ret>>, x |-> <<>>, g |-> G0]

\* Call from the running activation, to be resumed as ret, into callee.
Call(ret, callee) ==
    /\ sp' = sp - FrameBytes
    /\ mem' = Push(mem, sp - FrameBytes, RustFrame(ret))
    /\ ctl' = callee

\* panic.rs: interrupts off, then wfi for ever
Panic_sstatus_kept ==
    /\ ctl' = At("panic")
    /\ sstatus' = sstatus

Panic ==
    /\ ctl' = At("panic")
    /\ sstatus' = 0

\* Return of handle_syscall, yield_now or create_process to its caller.  A
\* frame that is no longer the callee's own sends control anywhere.
RustReturn ==
    /\ ctl.pc \in {"hs_ret", "yn_ret", "cp_ret"}
    /\ IF HasFrame(mem, sp, "rust")
       THEN /\ ctl' = mem[sp].c[1]
            /\ mem' = Drop(mem, sp)
            /\ sp' = sp + FrameBytes
       ELSE /\ ctl' = At("wild")
            /\ UNCHANGED <<mem, sp>>
    /\ UNCHANGED <<procs, current_proc, first_switch, lock_cur, lock_procs,
                   lock_files,
                   sstatus, sepc, sscratch, satp, scause, mode, timer_armed,
                   switched, ticks, ecalls>>

---------------------------------------------------------------------------
(* Spinlocks (SpinLock::lock spins until the flag is clear and does not    *)
(* touch sstatus; the guard's drop clears the flag).                       *)

CurLockPoints == {"yn_entry", "yn_set", "hs_exit"}
ProcsLockPoints == {"yn_scan", "yn_ptrs", "hs_exit_mark", "cp_entry"}

Locked(l) ==
    CASE l = "yn_entry" -> "yn_cur_locked"
      [] l = "yn_set" -> "yn_set_locked"
      [] l = "hs_exit" -> "hs_exit_cur_locked"
      [] l = "yn_scan" -> "yn_scan_locked"
      [] l = "yn_ptrs" -> "yn_ptrs_locked"
      [] l = "hs_exit_mark" -> "hs_exit_procs_locked"
      [] l = "cp_entry" -> "cp_locked"

\* CURRENT_PROC.lock()
LockCurrentProc ==
    /\ ctl.pc \in CurLockPoints
    /\ ~lock_cur
    /\ lock_cur' = TRUE
    /\ ctl' = [ctl EXCEPT !.pc = Locked(ctl.pc)]
    /\ UNCHANGED <<procs, current_proc, first_switch, lock_procs,
                   lock_files, sstatus,
                   sepc, sscratch, satp, scause, mode, sp, mem, timer_armed,
                   switched, ticks, ecalls>>

\* PROCS.0.lock()
LockProcs ==
    /\ ctl.pc \in ProcsLockPoints
    /\ ~lock_procs
    /\ lock_procs' = TRUE
    /\ ctl' = [ctl EXCEPT !.pc = Locked(ctl.pc)]
    /\ UNCHANGED <<procs, current_proc, first_switch, lock_cur,
                   lock_files, sstatus,
                   sepc, sscratch, satp, scause, mode, sp, mem, timer_armed,
                   switched, ticks, ecalls>>

---------------------------------------------------------------------------
(* create_process, scheduler_init, kernel_main *)

\* Words of the image create_process writes, and of the one switch_context
\* pushes and pops.
CreateImageWords == 16
SwitchImageWords == 17

\* A choice that would also reclaim Exited slots.
FirstNotRunnable(ps) ==
    IF \E i \in Slots : ps[i].state # "Runnable"
    THEN CHOOSE i \in Slots :
            /\ ps[i].state # "Runnable"
            /\ \A j \in Slots : j < i => ps[j].state = "Runnable"
    ELSE -1

\* iter_mut().enumerate().find(|(_, p)| p.state == State::Unused)
FirstUnused(ps) ==
    IF \E i \in Slots : ps[i].state = "Unused"
    THEN CHOOSE i \in Slots :
            /\ ps[i].state = "Unused"
            /\ \A j \in Slots : j < i => ps[j].state # "Unused"
    ELSE -1

\* callee_saved_regs: ra, s0..s11 (zero), sscratch, sepc, sstatus
callee_saved_regs(i, entry, is_kernel, sst) ==
    [k |-> "image", size |-> CreateImageWords * WORD, c |-> <<>>,
     x |-> <<entry, IF is_kernel THEN 0 ELSE StackEnd(i), 0, sst>>,
     g |-> [G0 EXCEPT !.by = "create"]]

callee_saved_regs_start == STACK_BYTES - CreateImageWords * WORD

\* A create_process that used the slot index as the pid.
create_process_procs_pid_index(ps, i, is_kernel) ==
    [ps EXCEPT ![i] = [pid |-> i, state |-> "Runnable",
                       is_kernel |-> is_kernel,
                       sp |-> StackBase(i) + callee_saved_regs_start]]

\* The body of create_process on slot i (the lock is held around it).
create_process_procs(ps, i, is_kernel) ==
    [ps EXCEPT ![i] = [pid |-> i + 1, state |-> "Runnable",
                       is_kernel |-> is_kernel,
                       sp |-> StackBase(i) + callee_saved_regs_start]]

create_process_mem(m, i, entry, is_kernel, sst) ==
    Push(m, StackBase(i) + callee_saved_regs_start,
         callee_saved_regs(i, entry, is_kernel, sst))

\* iter_mut().find(|p| p.pid == pid): the pid of the first such slot := 0
set_idle_pid(ps, pid) ==
    LET i == try_get_index(ps, pid) IN
    IF i = -1 THEN ps ELSE [ps EXCEPT ![i].pid = IDLE_PID]

\* scheduler_init(), entered with interrupts off: create the idle process,
\* rename it to pid 0, enable the timer interrupt and sstatus.SIE.
SchedulerInit ==
    /\ ctl.pc = "km_init"
    /\ LET i == FirstUnused(procs) IN
        /\ i # -1
        /\ procs' = set_idle_pid(create_process_procs(procs, i, TRUE), i + 1)
        /\ mem' = create_process_mem(mem, i, PcAddr("idle_process"), TRUE,
                                     sstatus)
    /\ sstatus' = SetBit(sstatus, SSTATUS_SIE)
    /\ timer_armed' = TRUE
    /\ ctl' = At("km_create")
    /\ UNCHANGED <<current_proc, first_switch, lock_cur, lock_procs,
                   lock_files, sepc,
                   sscratch, satp, scause, mode, sp, switched, ticks, ecalls>>

\* kernel_main's three create_process calls: A, B (kernel), the shell (user)
KernelMainEntries == <<"proc_a_entry", "proc_b_entry", "user_entry">>

KmCreate ==
    /\ ctl.pc = "km_create"
    /\ Call([ctl EXCEPT !.n = ctl.n + 1,
                        !.pc = IF ctl.n + 1 < Len(KernelMainEntries)
                               THEN "km_create" ELSE "km_yield"],
            [At("cp_entry") EXCEPT
                !.a0 = PcAddr(KernelMainEntries[ctl.n + 1]),
                !.a2 = IF KernelMainEntries[ctl.n + 1] = "user_entry"
                       THEN 1 ELSE 0])
    /\ UNCHANGED <<procs, current_proc, first_switch, lock_cur, lock_procs,
                   lock_files,
                   sstatus, sepc, sscratch, satp, scause, mode, timer_armed,
                   switched, ticks, ecalls>>

\* create_process(entry = a0, image_size = a2) with PROCS locked
CreateProcess ==
    /\ ctl.pc = "cp_locked"
    /\ LET i == FirstUnused(procs)
           is_kernel == ctl.a2 = 0
       IN  IF i = -1
           THEN /\ Panic
                /\ UNCHANGED <<procs, mem, lock_procs>>
           ELSE /\ procs' = create_process_procs(procs, i, is_kernel)
                /\ mem' = create_process_mem(mem, i, ctl.a0, is_kernel,
                                             sstatus)
                /\ lock_procs' = FALSE
                /\ ctl' = [At("cp_ret") EXCEPT !.a0 = i + 1]
                /\ UNCHANGED sstatus
    /\ UNCHANGED <<current_proc, first_switch, lock_cur,
                   lock_files, sepc, sscratch,
                   satp, scause, mode, sp, timer_armed,
                   switched, ticks, ecalls>>

\* kernel_main: yield_now()
KmYield ==
    /\ ctl.pc = "km_yield"
    /\ Call(At("km_unreachable"), At("yn_entry"))
    /\ UNCHANGED <<procs, current_proc, first_switch, lock_cur, lock_procs,
                   lock_files,
                   sstatus, sepc, sscratch, satp, scause, mode, timer_armed,
                   switched, ticks, ecalls>>


---------------------------------------------------------------------------
(* Process bodies *)

\* proc_a_entry / proc_b_entry: the function sets up its activation and
\* loops for ever printing (the loop changes nothing that is modelled).
ProcStart ==
    /\ ctl.pc \in {"proc_a_entry", "proc_b_entry"}
    /\ Call(At("wild"), At("proc_run"))
    /\ UNCHANGED <<procs, current_proc, first_switch, lock_cur, lock_procs,
                   lock_files,
                   sstatus, sepc, sscratch, satp, scause, mode, timer_armed,
                   switched, ticks, ecalls>>

\* idle_process, and the unreachable!() after a yield_now that must not
\* return.
PanicPoints == {"idle_process", "km_unreachable", "hs_exit_unreachable"}

PanicPoint ==
    /\ ctl.pc \in PanicPoints
    /\ Panic
    /\ UNCHANGED <<procs, current_proc, first_switch, lock_cur, lock_procs,
                   lock_files,
                   sepc, sscratch, satp, scause, mode, sp, mem, timer_armed,
                   switched, ticks, ecalls>>

\* user_entry: csrw sepc, USER_BASE
UserEntrySepc ==
    /\ ctl.pc = "user_entry"
    /\ sepc' = USER_BASE
    /\ ctl' = [ctl EXCEPT !.pc = "ue_sstatus"]
    /\ UNCHANGED <<procs, current_proc, first_switch, lock_cur, lock_procs,
                   lock_files, sstatus, sscratch, satp, scause, mode, sp, mem,
                   timer_armed, switched, ticks, ecalls>>

\* user_entry: csrw sstatus, SSTATUS_SPIE | SSTATUS_SUM
UserEntrySstatus ==
    /\ ctl.pc = "ue_sstatus"
    /\ sstatus' = SSTATUS_SPIE + SSTATUS_SUM
    /\ ctl' = [ctl EXCEPT !.pc = "ue_sret"]
    /\ UNCHANGED <<procs, current_proc, first_switch, lock_cur, lock_procs,
                   lock_files,
                   sepc, sscratch, satp, scause, mode, sp, mem, timer_armed,
                   switched, ticks, ecalls>>

\* user_entry: sret
UserEntrySret ==
    /\ ctl.pc = "ue_sret"
    /\ sstatus' = SretSstatus(sstatus)
    /\ mode' = SretMode(sstatus)
    /\ ctl' = IF SretMode(sstatus) = "U" /\ IsUserAddr(sepc)
              THEN [At("user") EXCEPT !.upc = sepc]
              ELSE At("wild")
    /\ UNCHANGED <<procs, current_proc, first_switch, lock_cur, lock_procs,
                   lock_files,
                   sepc, sscratch, satp, scause, sp, mem, timer_armed,
                   switched, ticks, ecalls>>

---------------------------------------------------------------------------
(* User code (user/src/lib.rs): start sets sp and calls main; sys_call     *)
(* loads a7 and the arguments and executes ecall.                          *)

Sysnos == {SYS_PUTBYTE, SYS_GETCHAR, SYS_EXIT}

UserStartup ==
    /\ mode = "U"
    /\ ctl.pc = "user"
    /\ ctl.upc = UserStart
    /\ sp' = UserStackTop
    /\ ctl' = [ctl EXCEPT !.upc = UserEcallPc]
    /\ UNCHANGED <<procs, current_proc, first_switch, lock_cur, lock_procs,
                   lock_files,
                   sstatus, sepc, sscratch, satp, scause, mode, mem,
                   timer_armed, switched, ticks, ecalls>>

UserEcall ==
    /\ mode = "U"
    /\ ctl.pc = "user"
    /\ ctl.upc = UserEcallPc
    /\ ecalls < MaxEcalls
    /\ ecalls' = ecalls + 1
    /\ UNCHANGED <<ticks, timer_armed>>
    /\ \E sysno \in Sysnos :
          kernel_entry(SCAUSE_ECALL, [ctl EXCEPT !.a7 = sysno, !.a0 = 0],
                       MaxNest)

\* back from sys_call, on to the next one
UserLoop ==
    /\ mode = "U"
    /\ ctl.pc = "user"
    /\ ctl.upc = UserEcallPc + WORD
    /\ ctl' = [ctl EXCEPT !.upc = UserEcallPc, !.a0 = 0, !.a7 = 0]
    /\ UNCHANGED <<procs, current_proc, first_switch, lock_cur, lock_procs,
                   lock_files,
                   sstatus, sepc, sscratch, satp, scause, mode, sp, mem,
                   timer_armed, switched, ticks, ecalls>>

---------------------------------------------------------------------------
(* handle_trap and kernel_return *)

\* if scause == SCAUSE_ECALL {..} else if scause == SCAUSE_TIMER_INTERRUPT
\* {..} else { panic!(..) }
handle_trap_arm_no_panic(cause) ==
    IF cause = SCAUSE_ECALL THEN "syscall" ELSE "timer"

handle_trap_arm(cause) ==
    IF cause = SCAUSE_ECALL THEN "syscall"
    ELSE IF cause = SCAUSE_TIMER_INTERRUPT THEN "timer"
    ELSE "panic"

\* handle_trap up to the call it makes: read scause (and sepc), re-enable
\* interrupts, call handle_syscall(f) or yield_now().
HandleTrap ==
    /\ ctl.pc = "ht_entry"
    /\ IF handle_trap_arm(scause) = "syscall"
       THEN /\ sstatus' = SetBit(sstatus, SSTATUS_SIE)
            /\ Call([ctl EXCEPT !.pc = "ht_sys_ret", !.user_pc = sepc],
                    [At("hs_entry") EXCEPT !.f = ctl.f])
            /\ UNCHANGED timer_armed
       ELSE IF handle_trap_arm(scause) = "timer"
       THEN /\ timer_armed' = TRUE
            /\ sstatus' = SetBit(sstatus, SSTATUS_SIE)
            /\ Call([ctl EXCEPT !.pc = "ht_ret"], At("yn_entry"))
       ELSE /\ Panic
            /\ UNCHANGED <<sp, mem, timer_armed>>
    /\ UNCHANGED <<procs, current_proc, first_switch, lock_cur, lock_procs,
                   lock_files, sepc, sscratch, satp, scause, mode, switched,
                   ticks, ecalls>>

\* user_pc += 4; write_csr!("sepc", user_pc)
HandleTrapSepc ==
    /\ ctl.pc = "ht_sys_ret"
    /\ sepc' = ctl.user_pc + 4
    /\ ctl' = [ctl EXCEPT !.pc = "ht_ret"]
    /\ UNCHANGED <<procs, current_proc, first_switch, lock_cur, lock_procs,
                   lock_files, sstatus, sscratch, satp, scause, mode, sp, mem,
                   timer_armed, switched, ticks, ecalls>>

\* kernel_return(f): mv sp, a0 ; lw a0, 31*4(sp) ; csrw sscratch, a0
KernelReturnSscratch ==
    /\ ctl.pc = "ht_ret"
    /\ IF HasFrame(mem, ctl.f, "trap")
       THEN /\ sp' = ctl.f
            /\ sscratch' = mem[ctl.f].x[2]
            /\ ctl' = At("kr_regs")
       ELSE /\ ctl' = At("wild")
            /\ UNCHANGED <<sp, sscratch>>
    /\ UNCHANGED <<procs, current_proc, first_switch, lock_cur, lock_procs,
                   lock_files,
                   sstatus, sepc, satp, scause, mode, mem, timer_armed,
                   switched, ticks, ecalls>>

\* kernel_return: reload ra .. s11, then lw sp, 30*4(sp)
KernelReturnRegs ==
    /\ ctl.pc = "kr_regs"
    /\ IF HasFrame(mem, sp, "trap")
       THEN /\ ctl' = [At("kr_sret") EXCEPT !.res = mem[sp].c,
                                            !.g = mem[sp].g]
            /\ sp' = mem[sp].x[1]
            /\ mem' = Drop(mem, sp)
       ELSE /\ ctl' = At("wild")
            /\ UNCHANGED <<sp, mem>>
    /\ UNCHANGED <<procs, current_proc, first_switch, lock_cur, lock_procs,
                   lock_files,
                   sstatus, sepc, sscratch, satp, scause, mode, timer_armed,
                   switched, ticks, ecalls>>

\* The registers reloaded by kernel_return resume sensibly only at the
\* instruction, and in the mode, they were saved at (for an ecall, at the
\* next user instruction).
ResumeOk(rc, pc, m) ==
    IF rc.pc = "user" THEN m = "U" /\ IsUserAddr(pc)
    ELSE m = "S" /\ pc = PcAddr(rc.pc)

\* kernel_return: sret
KernelReturnSret ==
    /\ ctl.pc = "kr_sret"
    /\ sstatus' = SretSstatus(sstatus)
    /\ LET rc == ctl.res[1]
           m == SretMode(sstatus)
       IN  IF ResumeOk(rc, sepc, m)
           THEN /\ mode' = m
                /\ ctl' = IF rc.pc = "user" THEN [rc EXCEPT !.upc = sepc]
                          ELSE rc
           ELSE /\ mode' = m
                /\ ctl' = At("wild")
    /\ UNCHANGED <<procs, current_proc, first_switch, lock_cur, lock_procs,
                   lock_files,
                   sepc, sscratch, satp, scause, sp, mem, timer_armed,
                   switched, ticks, ecalls>>


---------------------------------------------------------------------------
(* handle_syscall *)

\* f.a0 = v, a store into the trap frame f points at
SetFrameA0(m, f, v) ==
    IF HasFrame(m, f, "trap")
    THEN [m EXCEPT ![f].c = <<[m[f].c[1] EXCEPT !.a0 = v]>>]
    ELSE m

\* The character the console hands out.
SomeChar == 65

\* let sysno = f.a7; match sysno { .. }
HandleSyscall ==
    /\ ctl.pc = "hs_entry"
    /\ IF ~HasFrame(mem, ctl.f, "trap")
       THEN /\ ctl' = At("wild")
            /\ UNCHANGED <<mem, sstatus>>
       ELSE LET sysno == mem[ctl.f].c[1].a7 IN
            IF sysno = SYS_PUTBYTE
            THEN /\ mem' = SetFrameA0(mem, ctl.f, 0)
                 /\ ctl' = [ctl EXCEPT !.pc = "hs_ret"]
                 /\ UNCHANGED sstatus
            ELSE IF sysno = SYS_GETCHAR
            THEN /\ ctl' = [ctl EXCEPT !.pc = "hs_getchar"]
                 /\ UNCHANGED <<mem, sstatus>>
            ELSE IF sysno = SYS_EXIT
            THEN /\ ctl' = [ctl EXCEPT !.pc = "hs_exit"]
                 /\ UNCHANGED <<mem, sstatus>>
            ELSE IF sysno \in {SYS_READFILE, SYS_WRITEFILE}
            THEN /\ ctl' = [ctl EXCEPT !.pc = "hs_file"]
                 /\ UNCHANGED <<mem, sstatus>>
            ELSE /\ Panic
                 /\ UNCHANGED mem
    /\ UNCHANGED <<procs, current_proc, first_switch, lock_cur, lock_procs,
                   lock_files,
                   sepc, sscratch, satp, scause, mode, sp, timer_armed,
                   switched, ticks, ecalls>>

\* SYS_GETCHAR: loop { if let Ok(ch) = get_char() { f.a0 = ch; break }
\*                     yield_now() }
SysGetchar ==
    /\ ctl.pc = "hs_getchar"
    /\ \E ready \in BOOLEAN :
          IF ready
          THEN /\ mem' = SetFrameA0(mem, ctl.f, SomeChar)
               /\ ctl' = [ctl EXCEPT !.pc = "hs_ret"]
               /\ UNCHANGED sp
          ELSE Call(ctl, At("yn_entry"))
    /\ UNCHANGED <<procs, current_proc, first_switch, lock_cur, lock_procs,
                   lock_files,
                   sstatus, sepc, sscratch, satp, scause, mode, timer_armed,
                   switched, ticks, ecalls>>

\* SYS_EXIT: let current = CURRENT_PROC.lock().expect(..)
SysExitCurrent ==
    /\ ctl.pc = "hs_exit_cur_locked"
    /\ lock_cur' = FALSE
    /\ ctl' = [ctl EXCEPT !.pc = "hs_exit_mark", !.cur = current_proc]
    /\ UNCHANGED <<procs, current_proc, first_switch, lock_procs,
                   lock_files, sstatus,
                   sepc, sscratch, satp, scause, mode, sp, mem, timer_armed,
                   switched, ticks, ecalls>>

\* iter_mut().find(|p| p.pid == current): that slot's state = Exited
set_exited(ps, pid) ==
    LET i == try_get_index(ps, pid) IN
    IF i = -1 THEN ps ELSE [ps EXCEPT ![i].state = "Exited"]

\* SYS_EXIT: mark the slot with PROCS locked, unlock, then yield_now()
SysExitMark ==
    /\ ctl.pc = "hs_exit_procs_locked"
    /\ procs' = set_exited(procs, ctl.cur)
    /\ lock_procs' = FALSE
    /\ Call([ctl EXCEPT !.pc = "hs_exit_unreachable"], At("yn_entry"))
    /\ UNCHANGED <<current_proc, first_switch, lock_cur,
                   lock_files, sstatus, sepc,
                   sscratch, satp, scause, mode, timer_armed,
                   switched, ticks, ecalls>>

---------------------------------------------------------------------------
(* yield_now *)

\* let current_pid = CURRENT_PROC.lock().expect(..)
YieldReadCurrent ==
    /\ ctl.pc = "yn_cur_locked"
    /\ lock_cur' = FALSE
    /\ ctl' = [ctl EXCEPT !.pc = "yn_scan", !.cur = current_proc]
    /\ UNCHANGED <<procs, current_proc, first_switch, lock_procs,
                   lock_files, sstatus,
                   sepc, sscratch, satp, scause, mode, sp, mem, timer_armed,
                   switched, ticks, ecalls>>

\* let next_pid = PROCS.get_next(current_pid);
\* if next_pid == current_pid { return }
\* (try_get_index's own lock section is folded into the scan's)
YieldGetNext ==
    /\ ctl.pc = "yn_scan_locked"
    /\ LET next_pid == get_next(procs, ctl.cur) IN
       IF next_pid = -1
       THEN /\ Panic
            /\ UNCHANGED lock_procs
       ELSE /\ lock_procs' = FALSE
            /\ ctl' = IF next_pid = ctl.cur THEN At("yn_ret")
                      ELSE [ctl EXCEPT !.pc = "yn_ptrs", !.nxt = next_pid]
            /\ UNCHANGED sstatus
    /\ UNCHANGED <<procs, current_proc, first_switch, lock_cur,
                   lock_files, sepc,
                   sscratch, satp, scause, mode, sp, mem, timer_armed,
                   switched, ticks, ecalls>>

\* The two indices, get_disjoint_mut, the two sp pointers; on the first
\* switch the outgoing pointer is the address of a local of yield_now.
YieldPointers ==
    /\ ctl.pc = "yn_ptrs_locked"
    /\ LET next_index == try_get_index(procs, ctl.nxt)
           current_index == try_get_index(procs, ctl.cur)
       IN  IF next_index = -1 \/ current_index = -1
              \/ next_index = current_index
           THEN /\ Panic
                /\ UNCHANGED <<lock_procs, first_switch>>
           ELSE /\ first_switch' = FALSE
                /\ lock_procs' = FALSE
                /\ ctl' = [ctl EXCEPT
                      !.pc = "yn_set",
                      !.next_ptr = SpAddr(next_index),
                      !.prev_ptr = IF first_switch THEN sp + WORD
                                   ELSE SpAddr(current_index)]
                /\ UNCHANGED sstatus
    /\ UNCHANGED <<procs, current_proc, lock_cur,
                   lock_files, sepc, sscratch, satp,
                   scause, mode, sp, mem, timer_armed,
                   switched, ticks, ecalls>>

\* *CURRENT_PROC.lock() = Some(next_pid)
YieldSetCurrent ==
    /\ ctl.pc = "yn_set_locked"
    /\ current_proc' = ctl.nxt
    /\ lock_cur' = FALSE
    /\ ctl' = [ctl EXCEPT !.pc = "yn_switch"]
    /\ UNCHANGED <<procs, first_switch, lock_procs,
                   lock_files, sstatus, sepc, sscratch,
                   satp, scause, mode, sp, mem, timer_armed,
                   switched, ticks, ecalls>>


---------------------------------------------------------------------------
(* switch_context(prev_sp = prev_ptr, next_sp = next_ptr) *)

\* The 17 words pushed for the outgoing context: ra, s0..s11, sscratch,
\* sepc, sstatus (SIE already cleared), satp.
switch_image(ra, ssc, epc, sst, atp) ==
    [k |-> "image", size |-> SwitchImageWords * WORD, c |-> <<>>,
     x |-> <<ra, ssc, epc, sst, atp>>, g |-> [G0 EXCEPT !.by = "switch"]]

\* csrrci t0, sstatus, 2: t0 receives the whole old sstatus
csrrci_t0(sst) == sst

\* Word 16 of the image at a: its own if it has 17 words, else the word
\* that follows the 16 it has.
ImageWord16(ps, m, a) ==
    IF Len(m[a].x) = 5 THEN {m[a].x[5]}
    ELSE WordValues(ps, a + m[a].size)

\* From the call to the csrw sstatus: latch and clear SIE, push the image,
\* *prev_sp = sp, sp = *next_sp, satp, sscratch, sepc, sstatus of the next.
SwitchSave ==
    /\ ctl.pc = "yn_switch"
    /\ LET base == sp - SwitchImageWords * WORD
           img == switch_image(PcAddr("yn_ret"), sscratch, sepc,
                               ClrBit(sstatus, SSTATUS_SIE), satp)
           mem1 == Push(mem, base, img)
           procs1 == StoreWord(procs, ctl.prev_ptr, base)
           next_sp == CHOOSE v \in WordValues(procs1, ctl.next_ptr) : TRUE
       IN  /\ mem' = mem1
           /\ procs' = procs1
           /\ sp' = next_sp
           /\ IF HasFrame(mem1, next_sp, "image")
              THEN /\ \E w \in ImageWord16(procs1, mem1, next_sp) : satp' = w
                   /\ sscratch' = mem1[next_sp].x[2]
                   /\ sepc' = mem1[next_sp].x[3]
                   /\ sstatus' = mem1[next_sp].x[4]
                   /\ ctl' = [At("sw_restored") EXCEPT
                                 !.t0 = csrrci_t0(sstatus)]
              ELSE /\ ctl' = At("wild")
                   /\ sstatus' = ClrBit(sstatus, SSTATUS_SIE)
                   /\ UNCHANGED <<satp, sscratch, sepc>>
    /\ UNCHANGED <<current_proc, first_switch, lock_cur, lock_procs,
                   lock_files, scause,
                   mode, timer_armed, switched, ticks, ecalls>>

\* lw ra .. s11 from the image, addi sp, sp, 17 * 4
SwitchPop ==
    /\ ctl.pc = "sw_restored"
    /\ IF HasFrame(mem, sp, "image")
       THEN /\ ctl' = [At("sw_popped") EXCEPT !.ra = mem[sp].x[1],
                                              !.t0 = ctl.t0]
            /\ mem' = Drop(mem, sp)
            /\ sp' = sp + SwitchImageWords * WORD
       ELSE /\ ctl' = At("wild")
            /\ UNCHANGED <<mem, sp>>
    /\ UNCHANGED <<procs, current_proc, first_switch, lock_cur, lock_procs,
                   lock_files,
                   sstatus, sepc, sscratch, satp, scause, mode, timer_armed,
                   switched, ticks, ecalls>>

\* beqz t0, 2f ; csrsi sstatus, 2
reenable(t0) == t0 # 0

SwitchReenable ==
    /\ ctl.pc = "sw_popped"
    /\ sstatus' = IF reenable(ctl.t0) THEN SetBit(sstatus, SSTATUS_SIE)
                  ELSE sstatus
    /\ ctl' = [ctl EXCEPT !.pc = "sw_ret", !.csrsi = reenable(ctl.t0)]
    /\ UNCHANGED <<procs, current_proc, first_switch, lock_cur, lock_procs,
                   lock_files,
                   sepc, sscratch, satp, scause, mode, sp, mem, timer_armed,
                   switched, ticks, ecalls>>

\* 2: ret
SwitchRet ==
    /\ ctl.pc = "sw_ret"
    /\ ctl' = IF IsTextAddr(ctl.ra) THEN At(LabelAt(ctl.ra)) ELSE At("wild")
    /\ switched' = TRUE
    /\ UNCHANGED <<procs, current_proc, first_switch, lock_cur, lock_procs,
                   lock_files,
                   sstatus, sepc, sscratch, satp, scause, mode, sp, mem,
                   timer_armed, ticks, ecalls>>

---------------------------------------------------------------------------
(* The kernel from kernel_main on *)

NoFrames == [a \in {} |-> 0]

Init ==
    /\ procs = [i \in Slots |-> EmptyProcess]
    /\ current_proc = IDLE_PID
    /\ first_switch = TRUE
    /\ lock_cur = FALSE
    /\ lock_procs = FALSE
    /\ lock_files = FALSE
    /\ sstatus = 0
    /\ sepc = 0
    /\ sscratch = 0
    /\ satp = 0
    /\ scause = 0
    /\ mode = "S"
    /\ sp = BootStackTop
    /\ ctl = Ctl0
    /\ mem = NoFrames
    /\ timer_armed = FALSE
    /\ switched = FALSE
    /\ ticks = 0
    /\ ecalls = 0

\* Every step of the kernel and of user code other than taking a trap.
KernelCommon ==
    \/ SchedulerInit
    \/ CreateProcess
    \/ KmYield
    \/ UserEntrySepc
    \/ UserEntrySstatus
    \/ UserEntrySret
    \/ UserStartup
    \/ UserLoop
    \/ HandleTrap
    \/ HandleTrapSepc
    \/ KernelReturnSscratch
    \/ KernelReturnRegs
    \/ KernelReturnSret
    \/ HandleSyscall
    \/ SysGetchar
    \/ SysExitCurrent
    \/ SysExitMark
    \/ LockCurrentProc
    \/ LockProcs
    \/ RustReturn
    \/ YieldReadCurrent
    \/ YieldGetNext
    \/ YieldPointers
    \/ YieldSetCurrent
    \/ SwitchSave
    \/ SwitchPop
    \/ SwitchReenable
    \/ SwitchRet

KernelRun ==
    \/ KmCreate
    \/ ProcStart
    \/ KernelCommon

KernelStep ==
    \/ KernelRun
    \/ PanicPoint

Next ==
    \/ KernelStep
    \/ TimerInterrupt
    \/ UserEcall

Spec == Init /\ [][Next]_vars


---------------------------------------------------------------------------
(* Procs::get_next on its own, over every table the kernel can build       *)

\* Tables of the shape create_process and SYS_EXIT produce: slot 0 is the
\* idle process, slot i is Unused with pid 0 or carries pid i + 1.
TableStates == {"Unused", "Runnable", "Exited"}

TableOf(st) ==
    [i \in Slots |->
        IF i = 0
        THEN [pid |-> IDLE_PID, state |-> "Runnable", is_kernel |-> TRUE,
              sp |-> 0]
        ELSE IF st[i] = "Unused" THEN EmptyProcess
        ELSE [pid |-> i + 1, state |-> st[i], is_kernel |-> TRUE, sp |-> 0]]

InitGetNext ==
    /\ \E st \in [1 .. PROCS_MAX - 1 -> TableStates] : procs = TableOf(st)
    /\ \E pid \in 0 .. PROCS_MAX : ctl = [At("gn_call") EXCEPT !.cur = pid]
    /\ current_proc = IDLE_PID
    /\ first_switch = TRUE
    /\ lock_cur = FALSE
    /\ lock_procs = FALSE
    /\ lock_files = FALSE
    /\ sstatus = SSTATUS_SIE
    /\ sepc = 0
    /\ sscratch = 0
    /\ satp = 0
    /\ scause = 0
    /\ mode = "S"
    /\ sp = BootStackTop
    /\ mem = NoFrames
    /\ timer_armed = TRUE
    /\ switched = FALSE
    /\ ticks = 0
    /\ ecalls = 0

\* let next_pid = PROCS.get_next(current_pid), the panic of its .expect
\* included
GetNextCall ==
    /\ ctl.pc = "gn_call"
    /\ LET next_pid == get_next(procs, ctl.cur) IN
       IF next_pid = -1
       THEN Panic
       ELSE /\ ctl' = [ctl EXCEPT !.pc = "gn_done", !.nxt = next_pid]
            /\ UNCHANGED sstatus
    /\ UNCHANGED <<procs, current_proc, first_switch, lock_cur, lock_procs,
                   lock_files,
                   sepc, sscratch, satp, scause, mode, sp, mem, timer_armed,
                   switched, ticks, ecalls>>

NextGetNext == GetNextCall

SpecGetNext == InitGetNext /\ [][NextGetNext]_vars

Eligible(i) == procs[i].state = "Runnable" /\ procs[i].pid # IDLE_PID

\* C1: get_next(current) returns the pid of the first slot, in cyclic order
\* over all PROCS_MAX slots starting one past current's slot and ending with
\* current's own slot, that is Runnable with a pid other than 0; it returns
\* 0 exactly when no slot is Runnable with a pid other than 0.
C1_GetNextRoundRobin ==
    ctl.pc = "gn_done" =>
        LET ci == CHOOSE i \in Slots :
                    /\ procs[i].pid = ctl.cur
                    /\ \A j \in Slots : j < i => procs[j].pid # ctl.cur
            At_(k) == (ci + k) % PROCS_MAX
        IN  /\ \/ \E k \in 1 .. PROCS_MAX :
                    /\ Eligible(At_(k))
                    /\ \A j \in 1 .. k - 1 : ~Eligible(At_(j))
                    /\ ctl.nxt = procs[At_(k)].pid
               \/ /\ \A i \in Slots : ~Eligible(i)
                  /\ ctl.nxt = IDLE_PID
            /\ ctl.nxt = IDLE_PID <=> \A i \in Slots : ~Eligible(i)

\* The scan wrapped all the way round: the only eligible slot is current's
\* own, found last.
C1_Witness ==
    /\ ctl.pc = "gn_done"
    /\ ctl.cur # IDLE_PID
    /\ ctl.nxt = ctl.cur
    /\ \E i \in Slots : procs[i].state = "Exited"


---------------------------------------------------------------------------
(* Claims about the running kernel (specification Spec)                    *)

\* The slot whose kernel stack the hart is executing on; in user mode, the
\* slot of the current process.
ExecutingSlot ==
    IF mode = "U" THEN try_get_index(procs, current_proc) ELSE Region(sp)

\* C3: every slot that is Runnable and is not the currently executing
\* process has its PCB sp inside its own stack array, at the lowest word of
\* a parked image (never in another stack or the boot stack).
C3_ParkedSpInOwnStack ==
    ctl.pc \notin Terminal =>
        \A i \in Slots :
            ( /\ procs[i].state = "Runnable"
              /\ procs[i].pid # current_proc
              /\ i # ExecutingSlot )
            => /\ InStack(i, procs[i].sp)
               /\ HasFrame(mem, procs[i].sp, "image")

\* C4: on the first switch into a new process, the image create_process
\* wrote has the 17 words switch_context loads, all of them inside the
\* process's own stack array.
C4_CreateImageIsSwitchImage ==
    ( /\ ctl.pc = "sw_restored"
      /\ HasFrame(mem, sp, "image")
      /\ mem[sp].g.by = "create" )
    => /\ mem[sp].size = SwitchImageWords * WORD
       /\ sp + SwitchImageWords * WORD <= StackEnd(Region(sp))

\* C5: from the instruction of switch_context that clears SIE up to its
\* conditional re-enable, sstatus.SIE is 0, also once the next process's
\* saved sstatus has been written back.
C5_SieClearDuringSwitch ==
    ctl.pc \in {"sw_restored", "sw_popped"} => ~HasBit(sstatus, SSTATUS_SIE)

\* C7: whenever a timer interrupt can be delivered (user mode, or SIE set),
\* neither the current-pid lock nor the process-table lock is held.
C7_NoLockHeldWhenInterruptible ==
    ( /\ timer_armed
      /\ ctl.pc \notin Terminal
      /\ mode = "U" \/ HasBit(sstatus, SSTATUS_SIE) )
    => ~lock_cur /\ ~lock_procs

\* C8: the sret that ends a system call other than EXIT resumes the caller
\* in user mode at the address of its ecall plus 4, whatever traps and
\* switches happened in between.
C8_SyscallResumesAfterEcall ==
    [][ ( /\ KernelReturnSret
          /\ ctl.g.cause = SCAUSE_ECALL
          /\ ctl.res[1].pc = "user"
          /\ ctl.res[1].a7 # SYS_EXIT )
        => /\ mode' = "U"
           /\ ctl'.pc = "user"
           /\ ctl'.upc = ctl.res[1].upc + 4 ]_vars

\* Code of the trap exit stub and of switch_context itself, where sscratch
\* is in transit.
StubPoints == {"kr_regs", "kr_sret", "sw_restored", "sw_popped", "sw_ret"}

\* C9: once a switch_context has run, sscratch is 0 whenever kernel code
\* executes and the top of the current process's kernel stack whenever user
\* code executes.
C9_SscratchConvention ==
    (switched /\ ctl.pc \notin Terminal) =>
        /\ (mode = "S" /\ ctl.pc \notin StubPoints) => sscratch = 0
        /\ mode = "U" =>
              sscratch = StackEnd(try_get_index(procs, current_proc))

\* C10: at the call of handle_trap, the frame holds, for a trap from the
\* kernel (sscratch was 0), the pre-trap sp in slot 30 and 0 in slot 31;
\* for a trap from user mode, the user sp in slot 30 and the kernel-stack
\* top in slot 31; and sscratch is 0.
C10_TrapFrameSlots ==
    (ctl.pc = "ht_entry" /\ HasFrame(mem, sp, "trap")) =>
        LET g == mem[sp].g
            x == mem[sp].x
        IN  /\ (g.mode = "S" /\ g.sscratch = 0) => x = <<g.sp, 0>>
            /\ g.mode = "U" => x = <<g.sp, g.sscratch>>
            /\ sscratch = 0


---------------------------------------------------------------------------
(* switch_context on its own: one call, from process A (slot 1) parked in  *)
(* a handler to process B (slot 2), entered with any sstatus               *)

SstatusBits == {SSTATUS_SIE, SSTATUS_SPIE, SSTATUS_SPP, SSTATUS_SUM}

RECURSIVE SumOf(_)
SumOf(S) == IF S = {} THEN 0
            ELSE LET b == CHOOSE b \in S : TRUE IN b + SumOf(S \ {b})

SstatusValues == {SumOf(S) : S \in SUBSET SstatusBits}

\* PROCS after scheduler_init and two create_process calls.
TwoProcesses ==
    create_process_procs(
        create_process_procs(
            set_idle_pid(create_process_procs(
                [i \in Slots |-> EmptyProcess], 0, TRUE), 1),
            1, TRUE),
        2, TRUE)

InitSwitch ==
    /\ procs = TwoProcesses
    /\ \E created \in SstatusValues, b_is_kernel \in BOOLEAN :
          mem = create_process_mem(
                    create_process_mem(NoFrames, 1, PcAddr("proc_a_entry"),
                                       TRUE, created),
                    2, IF b_is_kernel THEN PcAddr("proc_b_entry")
                       ELSE PcAddr("user_entry"), b_is_kernel, created)
    /\ sstatus \in SstatusValues
    /\ current_proc = 3
    /\ first_switch = FALSE
    /\ lock_cur = FALSE
    /\ lock_procs = FALSE
    /\ lock_files = FALSE
    /\ sepc \in {0, UserEcallPc}
    /\ sscratch = 0
    /\ satp = 0
    /\ scause = SCAUSE_TIMER_INTERRUPT
    /\ mode = "S"
    /\ sp = StackEnd(1) - TrapFrameBytes - FrameBytes
    /\ ctl = [At("yn_switch") EXCEPT !.cur = 2, !.nxt = 3,
                                     !.prev_ptr = SpAddr(1),
                                     !.next_ptr = SpAddr(2)]
    /\ timer_armed = TRUE
    /\ switched = FALSE
    /\ ticks = 0
    /\ ecalls = 0

NextSwitch ==
    \/ SwitchSave
    \/ SwitchPop
    \/ SwitchReenable
    \/ SwitchRet

SpecSwitch == InitSwitch /\ [][NextSwitch]_vars

\* C6: switch_context executes its final re-enable exactly when the SIE bit
\* it latched on entry was set, whatever the other bits of sstatus were.
C6_ReenableIffLatchedSie ==
    ctl.pc = "sw_ret" => (ctl.csrsi <=> HasBit(ctl.t0, SSTATUS_SIE))


---------------------------------------------------------------------------
(* The system call path, with the timer sampled: interrupts arrive while a *)
(* process body runs (the loop of a kernel process, user code) or between  *)
(* handle_trap's write of sepc and kernel_return. No unreachable!() is met  *)
(* under this sampling.                                                    *)

MaxTicksSyscall == 5

TimerPoints == {"proc_run", "user", "ht_ret"}

TimerInterruptSampled ==
    /\ timer_armed
    /\ ctl.pc \in TimerPoints
    /\ mode = "U" \/ HasBit(sstatus, SSTATUS_SIE)
    /\ ticks < MaxTicksSyscall
    /\ ticks' = ticks + 1
    /\ timer_armed' = FALSE
    /\ UNCHANGED ecalls
    /\ kernel_entry(SCAUSE_TIMER_INTERRUPT, ctl, MaxNest)

NextSyscall ==
    \/ KernelRun
    \/ TimerInterruptSampled
    \/ UserEcall

SpecSyscall == Init /\ [][NextSyscall]_vars

---------------------------------------------------------------------------
(* Progress: the hart executes its next instruction whenever it has one,   *)
(* and a deliverable timer interrupt is delivered.                         *)

FairSpec ==
    /\ Init
    /\ [][Next]_vars
    /\ WF_vars(KernelStep)
    /\ WF_vars(TimerInterrupt)

\* C2: a slot that is Runnable with a pid other than 0 becomes the current
\* process again (unless it stops being Runnable or the kernel panics) for
\* as long as the timer keeps ticking, for every interleaving of
\* timer-driven and voluntary yields.
C2_NoStarvation ==
    \A i \in 1 .. 3 :
        [](Eligible(i) =>
              <>( \/ current_proc = procs[i].pid
                  \/ ~Eligible(i)
                  \/ ctl.pc \in Terminal
                  \/ ticks = MaxTicks ))


---------------------------------------------------------------------------
(* Address spaces: create_process allocates one root page table per        *)
(* process from the bump allocator, a page each, in creation order.        *)

PAGE_SIZE == 4096
FreeRamBase == 4194304

\* Bit 31 of satp (sv32 mode), kept below the checker's integer range.
SATP_SV32 == 1073741824

\* Box::new(PageTable::new()) for the process in slot i
PageTableAddr(i) == FreeRamBase + i * PAGE_SIZE

root_satp(i) == SATP_SV32 + PageTableAddr(i) \div PAGE_SIZE

\* C11: after every switch_context into a process, satp is the sv32 mode
\* bit together with the page number of that process's root page table,
\* on the first switch into a created process and on every later one.
C11_SatpNamesRootTable ==
    (ctl.pc = "sw_restored" /\ Region(sp) \in Slots)
        => satp = root_satp(Region(sp))

\* The entry points create_process is given.
EntryPoints == {"idle_process", "proc_a_entry", "proc_b_entry", "user_entry"}

\* C12: the first switch_context into a created process continues at the
\* entry_pc of its image, and there sstatus.SUM is set exactly if the
\* process was created as a user process.
C12_EntryReachedWithSum ==
    /\ ( /\ ctl.pc = "sw_restored"
         /\ HasFrame(mem, sp, "image")
         /\ mem[sp].g.by = "create" )
       => /\ IsTextAddr(mem[sp].x[1])
          /\ LabelAt(mem[sp].x[1]) \in EntryPoints
    /\ (ctl.pc \in EntryPoints /\ Region(sp) \in Slots)
       => (HasBit(sstatus, SSTATUS_SUM) <=> ~procs[Region(sp)].is_kernel)


---------------------------------------------------------------------------
(* The process table under every order of its two operations: after       *)
(* scheduler_init, any number of create_process calls (kernel or user) and *)
(* SYS_EXITs of processes that are Runnable, taken one at a time.          *)

\* create_process(entry, image, image_size) called from kernel_main's level
TableCreate ==
    /\ ctl.pc = "km_create"
    /\ \E e \in {"proc_a_entry", "user_entry"} :
          Call(ctl, [At("cp_entry") EXCEPT
                        !.a0 = PcAddr(e),
                        !.a2 = IF e = "user_entry" THEN 1 ELSE 0])
    /\ UNCHANGED <<procs, current_proc, first_switch, lock_cur, lock_procs,
                   lock_files,
                   sstatus, sepc, sscratch, satp, scause, mode, timer_armed,
                   switched, ticks, ecalls>>

\* The process of a Runnable slot is current, on its own kernel stack, and
\* its system call reaches the SYS_EXIT arm of handle_syscall.
TableExit ==
    /\ ctl.pc = "km_create"
    /\ \E i \in Slots :
          /\ Eligible(i)
          /\ try_get_index(procs, procs[i].pid) = i
          /\ current_proc' = procs[i].pid
          /\ sp' = StackEnd(i) - TrapFrameBytes
    /\ ctl' = At("hs_exit")
    /\ UNCHANGED <<procs, first_switch, lock_cur, lock_procs,
                   lock_files, sstatus, sepc,
                   sscratch, satp, scause, mode, mem, timer_armed, switched,
                   ticks, ecalls>>

\* The exited process has called yield_now; the next operation on the table
\* comes from elsewhere.
TableResume ==
    /\ ctl.pc = "yn_entry"
    /\ ctl' = At("km_create")
    /\ sp' = BootStackTop
    /\ UNCHANGED <<procs, current_proc, first_switch, lock_cur, lock_procs,
                   lock_files,
                   sstatus, sepc, sscratch, satp, scause, mode, mem,
                   timer_armed, switched, ticks, ecalls>>

NextTable ==
    \/ SchedulerInit
    \/ TableCreate
    \/ LockProcs
    \/ CreateProcess
    \/ RustReturn
    \/ TableExit
    \/ LockCurrentProc
    \/ SysExitCurrent
    \/ SysExitMark
    \/ TableResume

SpecTable == Init /\ [][NextTable]_vars

\* C13: a slot's state changes only from Unused to Runnable, when
\* create_process chooses it, and from Runnable to Exited, by the SYS_EXIT
\* of the process that owns the slot while it is current; create_process
\* changes no slot that was not Unused.
C13_SlotLifecycle ==
    [][ \A i \in Slots :
          /\ procs'[i].state # procs[i].state
             => \/ /\ procs[i].state = "Unused"
                   /\ procs'[i].state = "Runnable"
                   /\ ctl.pc \in {"km_init", "cp_locked"}
                   /\ i = FirstUnused(procs)
                \/ /\ procs[i].state = "Runnable"
                   /\ procs'[i].state = "Exited"
                   /\ ctl.pc = "hs_exit_procs_locked"
                   /\ procs[i].pid = current_proc
                   /\ i = Region(sp)
          /\ (ctl.pc \in {"km_init", "cp_locked"} /\ procs'[i] # procs[i])
             => procs[i].state = "Unused" ]_vars

\* create_process has chosen a slot above one that is Exited.
C13_Witness ==
    /\ ctl.pc = "cp_ret"
    /\ \E i \in Slots :
          /\ procs[i].state = "Exited"
          /\ \E j \in Slots : j > i /\ procs[j].pid = ctl.a0


\* Slots that create_process has handed out.
UsedSlots == {i \in Slots : procs[i].state # "Unused"}

\* C14: once PROCS_MAX create_process calls have succeeded (every slot has
\* been handed out, the idle one included), a further create_process
\* panics and changes no slot, however many processes have exited.
C14_NoFreeSlotPanics ==
    [][ (ctl.pc = "cp_locked" /\ Cardinality(UsedSlots) = PROCS_MAX)
        => /\ ctl'.pc = "panic"
           /\ procs' = procs
           /\ mem' = mem ]_vars

\* The ninth create_process has panicked with exited processes in the table.
C14_Witness ==
    /\ ctl.pc = "panic"
    /\ Cardinality(UsedSlots) = PROCS_MAX
    /\ \E i \in Slots : procs[i].state = "Exited"

\* C15: create_process takes the lowest-index Unused slot i, leaves it with
\* pid i + 1, Runnable, sp at the lowest word of the image it wrote inside
\* the slot's own stack, returns i + 1 and changes no other slot;
\* scheduler_init then changes only the idle slot's pid, to 0.
C15_CreateFillsLowestUnused ==
    [][ /\ (ctl.pc = "cp_locked" /\ UsedSlots # Slots)
           => \E i \in Slots \ UsedSlots :
                 /\ \A j \in Slots \ UsedSlots : i <= j
                 /\ procs'[i].pid = i + 1
                 /\ procs'[i].state = "Runnable"
                 /\ HasFrame(mem', procs'[i].sp, "image")
                 /\ InStack(i, procs'[i].sp)
                 /\ procs'[i].sp + mem'[procs'[i].sp].size <= StackEnd(i)
                 /\ ctl'.pc = "cp_ret"
                 /\ ctl'.a0 = i + 1
                 /\ \A j \in Slots \ {i} : procs'[j] = procs[j]
        /\ ctl.pc = "km_init"
           => /\ procs'[0].pid = IDLE_PID
              /\ procs'[0].state = "Runnable"
              /\ InStack(0, procs'[0].sp)
              /\ \A j \in Slots \ {0} : procs'[j] = procs[j] ]_vars

\* create_process has returned a slot above an Exited one, which it left
\* as it was.
C15_Witness ==
    /\ ctl.pc = "cp_ret"
    /\ ctl.a0 > 2
    /\ procs[ctl.a0 - 1].pid = ctl.a0
    /\ procs[1].state = "Exited"

\* C16: after scheduler_init exactly one slot has its pid field equal to 0,
\* and that slot is Runnable.
C16_OneSlotWithPidZero ==
    ctl.pc # "km_init" =>
        /\ Cardinality({i \in Slots : procs[i].pid = IDLE_PID}) = 1
        /\ \A i \in Slots : procs[i].pid = IDLE_PID
                               => procs[i].state = "Runnable"


---------------------------------------------------------------------------
(* yield_now up to its call of switch_context, called repeatedly by the    *)
(* current process of any table the kernel can build.                      *)

MaxYields == 2

InitYield ==
    /\ \E st \in [1 .. PROCS_MAX - 1 -> TableStates] :
          /\ procs = TableOf(st)
          /\ \E i \in Slots :
                /\ TableOf(st)[i].state = "Runnable"
                /\ current_proc = TableOf(st)[i].pid
    /\ first_switch \in BOOLEAN
    /\ ctl = At("yd_call")
    /\ lock_cur = FALSE
    /\ lock_procs = FALSE
    /\ lock_files = FALSE
    /\ sstatus = SSTATUS_SIE
    /\ sepc = 0
    /\ sscratch = 0
    /\ satp = 0
    /\ scause = 0
    /\ mode = "S"
    /\ sp = BootStackTop
    /\ mem = NoFrames
    /\ timer_armed = TRUE
    /\ switched = FALSE
    /\ ticks = 0
    /\ ecalls = 0

\* yield_now(), and once it has returned, yield_now() again
YieldCall ==
    /\ ctl.pc = "yd_call"
    /\ ctl.n < MaxYields
    /\ Call([ctl EXCEPT !.n = ctl.n + 1], At("yn_entry"))
    /\ UNCHANGED <<procs, current_proc, first_switch, lock_cur, lock_procs,
                   lock_files,
                   sstatus, sepc, sscratch, satp, scause, mode, timer_armed,
                   switched, ticks, ecalls>>

NextYield ==
    \/ YieldCall
    \/ LockCurrentProc
    \/ YieldReadCurrent
    \/ LockProcs
    \/ YieldGetNext
    \/ YieldPointers
    \/ YieldSetCurrent
    \/ RustReturn

SpecYield == InitYield /\ [][NextYield]_vars

\* The current process is the only slot that is Runnable with a pid other
\* than 0.
SoleRunnable ==
    /\ \E i \in Slots : Eligible(i)
    /\ \A i \in Slots : Eligible(i) => procs[i].pid = current_proc

\* C17: when the current process is the only Runnable slot with a pid other
\* than 0, yield_now returns without reaching switch_context and leaves
\* CURRENT_PROC, every PCB and the first-switch flag as they were, on a
\* second call as on the first.
C17_SoleRunnableYieldIsNoOp ==
    [][ SoleRunnable
        => /\ current_proc' = current_proc
           /\ procs' = procs
           /\ first_switch' = first_switch
           /\ ctl.pc = "yn_scan_locked" => ctl'.pc = "yn_ret"
           /\ ctl'.pc \notin {"yn_ptrs", "yn_set", "yn_switch"} ]_vars

\* The second of two consecutive calls by a sole runnable process has
\* returned.
C17_Witness ==
    /\ SoleRunnable
    /\ ctl.pc = "yd_call"
    /\ ctl.n = 2


---------------------------------------------------------------------------
(* Claims about SYS_EXIT in the running kernel (specification Spec)        *)

\* C18: a process that has issued SYS_EXIT is never made current by a
\* later yield_now, and the unreachable!() after the yield_now of the
\* SYS_EXIT arm is never executed, whatever timer interrupts occur.
C18_ExitedNeverRunsAgain ==
    /\ ctl.pc = "yn_switch"
       => \A i \in Slots :
             procs[i].pid = current_proc => procs[i].state # "Exited"
    /\ ctl.pc # "hs_exit_unreachable"


---------------------------------------------------------------------------
(* The kernel with a single process besides idle: kernel_main creates the  *)
(* shell only, so that the last Runnable process can exit.                 *)

KmCreateShell ==
    /\ ctl.pc = "km_create"
    /\ Call([ctl EXCEPT !.pc = "km_yield"],
            [At("cp_entry") EXCEPT !.a0 = PcAddr("user_entry"), !.a2 = 1])
    /\ UNCHANGED <<procs, current_proc, first_switch, lock_cur, lock_procs,
                   lock_files,
                   sstatus, sepc, sscratch, satp, scause, mode, timer_armed,
                   switched, ticks, ecalls>>

NextExit ==
    \/ KmCreateShell
    \/ KernelCommon
    \/ PanicPoint
    \/ TimerInterrupt
    \/ UserEcall

SpecExit == Init /\ [][NextExit]_vars

\* Every process other than idle has exited.
AllExited ==
    /\ \E i \in Slots : procs[i].state = "Exited"
    /\ \A i \in Slots : ~Eligible(i)

\* C19: once the last Runnable process with a pid other than 0 has issued
\* SYS_EXIT, yield_now switches to the image create_process wrote for the
\* idle process, which resumes at idle_process and panics there; neither
\* the exited process nor kernel_main runs again.
C19_LastExitReachesIdle ==
    AllExited =>
        /\ ctl.pc = "sw_restored"
           => /\ Region(sp) = 0
              /\ HasFrame(mem, sp, "image")
              /\ mem[sp].g.by = "create"
              /\ mem[sp].x[1] = PcAddr("idle_process")
        /\ ctl.pc \notin {"hs_exit_unreachable", "km_unreachable", "user"}


---------------------------------------------------------------------------
(* SYS_READFILE and SYS_WRITEFILE: the arm that holds the FILES lock       *)

FileSysnos == {SYS_READFILE, SYS_WRITEFILE}

\* read_file / write_file of the user library: buf.len() goes in a3
UserEcallFile ==
    /\ mode = "U"
    /\ ctl.pc = "user"
    /\ ctl.upc = UserEcallPc
    /\ ecalls < MaxEcalls
    /\ ecalls' = ecalls + 1
    /\ UNCHANGED <<ticks, timer_armed>>
    /\ \E sysno \in FileSysnos, len \in {0, 1} :
          kernel_entry(SCAUSE_ECALL,
                       [ctl EXCEPT !.a7 = sysno, !.a0 = 0, !.a3 = len],
                       MaxNest)

\* let Some(file_i) = FILES.fs_lookup(filename) else { f.a0 = usize::MAX;
\* break 'readorwritefile }   (usize::MAX is written -1 here)
FsLookup ==
    /\ ctl.pc = "hs_file"
    /\ \E found \in BOOLEAN :
          IF found
          THEN /\ ctl' = [ctl EXCEPT !.pc = "hs_file_lock"]
               /\ UNCHANGED mem
          ELSE /\ mem' = SetFrameA0(mem, ctl.f, -1)
               /\ ctl' = [ctl EXCEPT !.pc = "hs_ret"]
    /\ UNCHANGED <<procs, current_proc, first_switch, lock_cur, lock_procs,
                   lock_files, sstatus, sepc, sscratch, satp, scause, mode,
                   sp, timer_armed, switched, ticks, ecalls>>

\* let files = FILES.0.lock();
LockFiles ==
    /\ ctl.pc = "hs_file_lock"
    /\ ~lock_files
    /\ lock_files' = TRUE
    /\ ctl' = [ctl EXCEPT !.pc = "hs_file_locked"]
    /\ UNCHANGED <<procs, current_proc, first_switch, lock_cur, lock_procs,
                   sstatus, sepc, sscratch, satp, scause, mode, sp, mem,
                   timer_armed, switched, ticks, ecalls>>

\* copy_from_slice under the guard, the guard's drop, f.a0 = buf_len
FileCopy ==
    /\ ctl.pc = "hs_file_locked"
    /\ lock_files' = FALSE
    /\ mem' = IF HasFrame(mem, ctl.f, "trap")
              THEN SetFrameA0(mem, ctl.f, mem[ctl.f].c[1].a3)
              ELSE mem
    /\ ctl' = [ctl EXCEPT !.pc = "hs_ret"]
    /\ UNCHANGED <<procs, current_proc, first_switch, lock_cur, lock_procs,
                   sstatus, sepc, sscratch, satp, scause, mode, sp,
                   timer_armed, switched, ticks, ecalls>>

NextFile ==
    \/ KernelStep
    \/ TimerInterrupt
    \/ UserEcall
    \/ UserEcallFile
    \/ FsLookup
    \/ LockFiles
    \/ FileCopy

SpecFile == Init /\ [][NextFile]_vars

\* C20: at every call of switch_context from yield_now the process-table
\* lock, the current-pid lock and the file-table lock are all free.
C20_NoLockHeldAcrossSwitch ==
    ctl.pc = "yn_switch" => ~lock_procs /\ ~lock_cur /\ ~lock_files


---------------------------------------------------------------------------
(* Contract-level specifications keep the kernel's own variables at rest   *)
(* and hold their inputs and results in ctl.                               *)

KernelAtRest ==
    /\ procs = [i \in Slots |-> EmptyProcess]
    /\ current_proc = IDLE_PID
    /\ first_switch = TRUE
    /\ lock_cur = FALSE
    /\ lock_procs = FALSE
    /\ lock_files = FALSE
    /\ sstatus = 0
    /\ sepc = 0
    /\ sscratch = 0
    /\ satp = 0
    /\ scause = 0
    /\ mode = "S"
    /\ sp = BootStackTop
    /\ mem = NoFrames
    /\ timer_armed = FALSE
    /\ switched = FALSE
    /\ ticks = 0
    /\ ecalls = 0

RestUnchanged ==
    UNCHANGED <<procs, current_proc, first_switch, lock_cur, lock_procs,
                lock_files, sstatus, sepc, sscratch, satp, scause, mode, sp,
                mem, timer_armed, switched, ticks, ecalls>>

---------------------------------------------------------------------------
(* The system-call ABI: sys_call, kernel_entry's stores, the TrapFrame     *)
(* struct, handle_syscall's decoding, kernel_return's loads                *)

\* struct TrapFrame, in declaration order (repr(C, packed), word offsets)
TrapFrameFields ==
    << "ra", "gp", "tp", "t0", "t1", "t2", "t3", "t4", "t5", "t6",
       "a0", "a1", "a2", "a3", "a4", "a5", "a6", "a7",
       "s0", "s1", "s2", "s3", "s4", "s5", "s6", "s7", "s8", "s9", "s10",
       "s11", "sp", "sscratch" >>

\* kernel_entry: sw <reg>, 4 * <k>(sp), for k = 0 .. 29, in order of k
EntryStores ==
    << "ra", "gp", "tp", "t0", "t1", "t2", "t3", "t4", "t5", "t6",
       "a0", "a1", "a2", "a3", "a4", "a5", "a6", "a7",
       "s0", "s1", "s2", "s3", "s4", "s5", "s6", "s7", "s8", "s9", "s10",
       "s11" >>

\* kernel_return: lw <reg>, 4 * <k>(sp), for k = 0 .. 29
ReturnLoads ==
    << "ra", "gp", "tp", "t0", "t1", "t2", "t3", "t4", "t5", "t6",
       "a0", "a1", "a2", "a3", "a4", "a5", "a6", "a7",
       "s0", "s1", "s2", "s3", "s4", "s5", "s6", "s7", "s8", "s9", "s10",
       "s11" >>

\* f.<name> is the word at the field's offset
FrameField(fr, name) ==
    fr[CHOOSE k \in 1 .. Len(TrapFrameFields) : TrapFrameFields[k] = name]

\* handle_syscall: let sysno = f.a7 (trap.rs), let sysno = f.a4 (entry.rs)
SysnoFields == {"a7", "a4"}

InitAbi ==
    /\ KernelAtRest
    /\ \E a \in [{"a0", "a1", "a2", "a3"} -> {0, 1}],
          n \in SYS_PUTBYTE .. SYS_WRITEFILE,
          other \in {0, SYS_PUTBYTE, SYS_EXIT} :
          ctl = [pc |-> "sys_call", args |-> a, sysno |-> n,
                 regs |-> [k \in 1 .. Len(EntryStores) |->
                              IF EntryStores[k] = "a4" THEN other ELSE 0],
                 frame |-> <<>>, handler |-> 0, hargs |-> <<>>,
                 written |-> 0, ret |-> 0]

\* sys_call: inout("a0") arg0, in("a1") .. in("a3"), in("a7") sysno; ecall
\* (the registers the asm block does not name keep what they held), then
\* kernel_entry's stores of the registers into the frame.
SysCallEcall ==
    /\ ctl.pc = "sys_call"
    /\ LET regs == [k \in 1 .. Len(EntryStores) |->
                      IF EntryStores[k] \in DOMAIN ctl.args
                      THEN ctl.args[EntryStores[k]]
                      ELSE IF EntryStores[k] = "a7" THEN ctl.sysno
                      ELSE ctl.regs[k]]
       IN  ctl' = [ctl EXCEPT !.pc = "handle_syscall", !.regs = regs,
                              !.frame = regs \o <<0, 0>>]
    /\ RestUnchanged

\* match sysno { .. }: the arm taken and the argument fields it reads
AbiDispatch ==
    /\ ctl.pc = "handle_syscall"
    /\ \E field \in SysnoFields :
          LET sysno == FrameField(ctl.frame, field) IN
          IF sysno \in SYS_PUTBYTE .. SYS_WRITEFILE
          THEN ctl' = [ctl EXCEPT
                          !.pc = IF sysno = SYS_EXIT THEN "exited"
                                 ELSE "handler",
                          !.handler = sysno,
                          !.hargs = [r \in DOMAIN ctl.args |->
                                        FrameField(ctl.frame, r)]]
          ELSE ctl' = [ctl EXCEPT !.pc = "panic"]
    /\ RestUnchanged

\* f.a0 = <result>, kernel_return's loads, sret, and sys_call's "=> a0"
AbiReturn ==
    /\ ctl.pc = "handler"
    /\ \E v \in {0, 7} :
          LET fr == [k \in 1 .. Len(TrapFrameFields) |->
                        IF TrapFrameFields[k] = "a0" THEN v ELSE ctl.frame[k]]
              regs == [k \in 1 .. Len(ReturnLoads) |->
                        fr[CHOOSE j \in 1 .. Len(ReturnLoads) :
                                ReturnLoads[j] = EntryStores[k]]]
          IN  ctl' = [ctl EXCEPT !.pc = "returned", !.written = v,
                                 !.frame = fr, !.regs = regs,
                                 !.ret = regs[CHOOSE k \in 1 .. Len(EntryStores) :
                                                 EntryStores[k] = "a0"]]
    /\ RestUnchanged

NextAbi ==
    \/ SysCallEcall
    \/ AbiDispatch
    \/ AbiReturn

SpecAbi == InitAbi /\ [][NextAbi]_vars

\* C21: for every sys_call(a0, a1, a2, a3, sysno) the kernel runs the
\* handler numbered sysno with those arguments, and sys_call returns the
\* value the handler wrote to the trap frame's a0.
C21_DispatchOnA7 ==
    /\ ctl.pc # "panic"
    /\ ctl.pc \in {"handler", "returned", "exited"}
       => ctl.handler = ctl.sysno /\ ctl.hargs = ctl.args
    /\ ctl.pc = "returned" => ctl.ret = ctl.written


---------------------------------------------------------------------------
(* Traps other than the system call and the timer: an exception raised by  *)
(* the shell or by a kernel process body                                   *)

\* illegal instruction, load page fault, store page fault
OtherCauses == {2, 13, 15}

OtherTrap ==
    /\ ctl.pc \in {"user", "proc_run"}
    /\ UNCHANGED <<ticks, ecalls, timer_armed>>
    /\ \E cause \in OtherCauses : kernel_entry(cause, ctl, MaxNest)

NextTrap ==
    \/ KernelStep
    \/ TimerInterrupt
    \/ UserEcall
    \/ OtherTrap

SpecTrap == Init /\ [][NextTrap]_vars

\* C22: handle_trap calls the system-call dispatcher exactly when scause is
\* 8, arms the next tick and calls yield_now exactly when scause is the
\* timer interrupt, and panics for every other scause without calling
\* either and without changing the process table or CURRENT_PROC.
C22_TrapDispatch ==
    [][ctl.pc = "ht_entry" =>
        /\ ctl'.pc = "hs_entry" <=> scause = SCAUSE_ECALL
        /\ ctl'.pc = "yn_entry" <=> scause = SCAUSE_TIMER_INTERRUPT
        /\ scause = SCAUSE_TIMER_INTERRUPT => ~timer_armed /\ timer_armed'
        /\ scause # SCAUSE_TIMER_INTERRUPT => timer_armed' = timer_armed
        /\ scause \notin {SCAUSE_ECALL, SCAUSE_TIMER_INTERRUPT}
           => /\ ctl'.pc = "panic"
              /\ procs' = procs
              /\ current_proc' = current_proc
              /\ mem' = mem]_vars

C22_Witness ==
    /\ ctl.pc = "panic"
    /\ scause \in OtherCauses
    /\ \E i \in Slots : procs[i].pid = current_proc /\ ~procs[i].is_kernel


---------------------------------------------------------------------------
\* C23: SYS_GETCHAR with no input calls yield_now and polls again instead
\* of returning; once a poll finds a byte the call returns to the caller,
\* in user mode, with that byte in a0 (never with the empty value).
C23_GetcharReturnsByte ==
    [][ /\ ctl.pc = "hs_getchar"
           => \/ ctl'.pc = "yn_entry" /\ HasFrame(mem', sp', "rust")
                 /\ mem'[sp'].c[1].pc = "hs_getchar"
              \/ ctl'.pc = "hs_ret" /\ HasFrame(mem', ctl.f, "trap")
                 /\ mem'[ctl.f].c[1].a0 = SomeChar
        /\ ( /\ KernelReturnSret
             /\ ctl.g.cause = SCAUSE_ECALL
             /\ ctl.res[1].pc = "user"
             /\ ctl.res[1].a7 = SYS_GETCHAR )
           => /\ mode' = "U"
              /\ ctl'.pc = "user"
              /\ ctl'.a0 = SomeChar ]_vars


---------------------------------------------------------------------------
\* get_char of the user library: if ch == -1 { None } else { Some(ch) }
user_get_char(ch) == IF ch = -1 THEN <<"None">> ELSE <<"Some", ch>>

\* C24: the user library's get_char() does not block: a poll of the console
\* ends the system call, which hands None to the caller when there was no
\* character and Some(byte) when a byte was read.
C24_GetCharDoesNotBlock ==
    [][ctl.pc = "hs_getchar"
        => /\ ctl'.pc = "hs_ret"
           /\ HasFrame(mem', ctl.f, "trap")
           /\ user_get_char(mem'[ctl.f].c[1].a0)
                 \in {<<"None">>, <<"Some", SomeChar>>}]_vars


---------------------------------------------------------------------------
(* Two user processes that loop in SYS_GETCHAR while the console has no    *)
(* input                                                                   *)

\* kernel_main creating two user processes
KmCreateTwoShells ==
    /\ ctl.pc = "km_create"
    /\ Call([ctl EXCEPT !.n = ctl.n + 1,
                        !.pc = IF ctl.n + 1 < 2 THEN "km_create"
                               ELSE "km_yield"],
            [At("cp_entry") EXCEPT !.a0 = PcAddr("user_entry"), !.a2 = 1])
    /\ UNCHANGED <<procs, current_proc, first_switch, lock_cur, lock_procs,
                   lock_files, sstatus, sepc, sscratch, satp, scause, mode,
                   timer_armed, switched, ticks, ecalls>>

\* get_char() of the user library, once per process: it does not come back
UserEcallGetchar ==
    /\ mode = "U"
    /\ ctl.pc = "user"
    /\ ctl.upc = UserEcallPc
    /\ ecalls < 2
    /\ ecalls' = ecalls + 1
    /\ UNCHANGED <<ticks, timer_armed>>
    /\ kernel_entry(SCAUSE_ECALL, [ctl EXCEPT !.a7 = SYS_GETCHAR, !.a0 = 0],
                    MaxNest)

\* SYS_GETCHAR: get_char() is Err(-1), so yield_now() and poll again
SysGetcharNoInput ==
    /\ ctl.pc = "hs_getchar"
    /\ Call(ctl, At("yn_entry"))
    /\ UNCHANGED <<procs, current_proc, first_switch, lock_cur, lock_procs,
                   lock_files, sstatus, sepc, sscratch, satp, scause, mode,
                   timer_armed, switched, ticks, ecalls>>

NextGetchar ==
    \/ SchedulerInit
    \/ KmCreateTwoShells
    \/ CreateProcess
    \/ KmYield
    \/ UserEntrySepc
    \/ UserEntrySstatus
    \/ UserEntrySret
    \/ UserStartup
    \/ UserEcallGetchar
    \/ HandleTrap
    \/ HandleSyscall
    \/ SysGetcharNoInput
    \/ KernelReturnSscratch
    \/ KernelReturnRegs
    \/ KernelReturnSret
    \/ LockCurrentProc
    \/ LockProcs
    \/ RustReturn
    \/ YieldReadCurrent
    \/ YieldGetNext
    \/ YieldPointers
    \/ YieldSetCurrent
    \/ SwitchSave
    \/ SwitchPop
    \/ SwitchReenable
    \/ SwitchRet
    \/ TimerInterrupt

\* The hart executes its next instruction whenever it has one.
FairGetchar == Init /\ [][NextGetchar]_vars /\ WF_vars(NextGetchar)

\* C25: once two user processes are both looping in SYS_GETCHAR with no
\* console input, each of them becomes current again and again (unless
\* control leaves the kernel's code).
C25_GetcharLoopsStayResponsive ==
    \/ [](ecalls < 2)
    \/ <>(ctl.pc \in Terminal)
    \/ \A pid \in {2, 3} : []<>(current_proc = pid)


---------------------------------------------------------------------------
(* Two kernel processes and no user process *)

\* kernel_main creating process A and process B only
KmCreateKernelProcs ==
    /\ ctl.pc = "km_create"
    /\ Call([ctl EXCEPT !.n = ctl.n + 1,
                        !.pc = IF ctl.n + 1 < 2 THEN "km_create"
                               ELSE "km_yield"],
            [At("cp_entry") EXCEPT
                !.a0 = PcAddr(KernelMainEntries[ctl.n + 1]), !.a2 = 0])
    /\ UNCHANGED <<procs, current_proc, first_switch, lock_cur, lock_procs,
                   lock_files, sstatus, sepc, sscratch, satp, scause, mode,
                   timer_armed, switched, ticks, ecalls>>

NextAlternate ==
    \/ SchedulerInit
    \/ KmCreateKernelProcs
    \/ CreateProcess
    \/ KmYield
    \/ ProcStart
    \/ HandleTrap
    \/ KernelReturnSscratch
    \/ KernelReturnRegs
    \/ KernelReturnSret
    \/ LockCurrentProc
    \/ LockProcs
    \/ RustReturn
    \/ YieldReadCurrent
    \/ YieldGetNext
    \/ YieldPointers
    \/ YieldSetCurrent
    \/ SwitchSave
    \/ SwitchPop
    \/ SwitchReenable
    \/ SwitchRet
    \/ TimerInterrupt

\* The hart executes its next instruction whenever it has one.
FairAlternate == Init /\ [][NextAlternate]_vars /\ WF_vars(NextAlternate)

\* C26: with process A (pid 2) and process B (pid 3) as the only processes
\* besides idle, a timer interrupt delivered while one of them is current
\* makes the other one current, and idle is never made current by a switch
\* (unless control leaves the kernel's code).
C26_StrictAlternation ==
    /\ \A pid \in {2, 3} :
          []( ( /\ ctl.pc = "ht_entry"
                /\ scause = SCAUSE_TIMER_INTERRUPT
                /\ current_proc = pid )
              => <>(current_proc = 5 - pid \/ ctl.pc \in Terminal) )
    /\ [](ctl.pc = "yn_switch" => current_proc # IDLE_PID)


---------------------------------------------------------------------------
(* The file table seen through SYS_READFILE and SYS_WRITEFILE.  A file is  *)
(* [name, data, size] with a data buffer of FileCap bytes.                 *)

FileCap == 2
MaxFsCalls == 2

\* FILES.fs_lookup(filename): the index of the file of that name, 0 for None
fs_lookup(files, name) ==
    IF \E i \in DOMAIN files : files[i].name = name
    THEN CHOOSE i \in DOMAIN files : files[i].name = name
    ELSE 0

\* files[file_i].data[..buf.len()].copy_from_slice(buf);
\* files[file_i].size = buf.len()
write_file_size_only(file, buf) == [file EXCEPT !.size = Len(buf)]

write_file(file, buf) ==
    [file EXCEPT !.data = [k \in 1 .. FileCap |->
                              IF k <= Len(buf) THEN buf[k] ELSE file.data[k]],
                 !.size = Len(buf)]

\* buf.copy_from_slice(&files[file_i].data[..buf.len()])
read_file(file, len) == [k \in 1 .. len |-> file.data[k]]

\* the value left in f.a0: usize::MAX (written -1) by the else branch of
\* the lookup, which leaves the block, and buf_len at the end of the block
file_result_buf_len(found, buf_len) == buf_len

file_result(found, buf_len) == IF found THEN buf_len ELSE -1

InitFs ==
    /\ KernelAtRest
    /\ \E d \in [{1, 2} -> [1 .. FileCap -> {0, 1}]] :
          ctl = [pc |-> "fs_idle", n |-> 0, flushes |-> 0,
                 files |-> [i \in {1, 2} |->
                              [name |-> <<"a", "b">>[i], data |-> d[i],
                               size |-> FileCap]],
                 lastw |-> [i \in {1, 2} |-> [set |-> FALSE, b |-> <<>>]],
                 op |-> [sysno |-> 0, name |-> "", file |-> 0, arg |-> <<>>,
                         buf |-> <<>>, a0 |-> 0]]

\* The SYS_READFILE | SYS_WRITEFILE arm of handle_syscall for a request of
\* the user library: a name, and a buffer of up to FileCap + 1 bytes.
FsCall ==
    /\ ctl.pc = "fs_idle"
    /\ ctl.n < MaxFsCalls
    /\ \E sysno \in FileSysnos, name \in {"a", "b", "x"},
          len \in 0 .. FileCap + 1 :
       \E buf \in [1 .. len -> {0, 1}] :
          LET i == fs_lookup(ctl.files, name)
              op == [sysno |-> sysno, name |-> name, file |-> i, arg |-> buf,
                     buf |-> buf, a0 |-> file_result(i # 0, len)]
              c == [ctl EXCEPT !.n = ctl.n + 1, !.op = op]
          IN  IF i = 0
              THEN ctl' = c
              ELSE IF len > FileCap
              THEN ctl' = [c EXCEPT !.pc = "panic"]
              ELSE IF sysno = SYS_WRITEFILE
              THEN ctl' = [c EXCEPT
                              !.files[i] = write_file(ctl.files[i], buf),
                              !.lastw[i] = [set |-> TRUE, b |-> buf],
                              !.flushes = ctl.flushes + 1]
              ELSE ctl' = [c EXCEPT
                              !.op.buf = read_file(ctl.files[i], len)]
    /\ RestUnchanged

NextFs == FsCall

SpecFs == InitFs /\ [][NextFs]_vars

C28_WriteThenRead ==
    /\ ( /\ ctl.pc = "fs_idle"
         /\ ctl.op.sysno = SYS_WRITEFILE
         /\ ctl.op.file # 0 )
       => ctl.op.a0 = Len(ctl.op.arg)
    /\ ( /\ ctl.pc = "fs_idle"
         /\ ctl.op.sysno = SYS_READFILE
         /\ ctl.op.file # 0
         /\ ctl.lastw[ctl.op.file].set
         /\ Len(ctl.op.arg) = Len(ctl.lastw[ctl.op.file].b) )
       => /\ ctl.op.buf = ctl.lastw[ctl.op.file].b
          /\ ctl.op.a0 = Len(ctl.op.arg)

C28_Witness ==
    /\ ctl.pc = "fs_idle"
    /\ ctl.op.sysno = SYS_READFILE
    /\ ctl.op.file = 2
    /\ ctl.lastw[2] = [set |-> TRUE, b |-> <<1, 0>>]
    /\ ctl.op.arg = <<0, 0>>
    /\ ctl.op.buf = <<1, 0>>


---------------------------------------------------------------------------
(* The page table create_process builds.  A table is a function from the   *)
(* virtual addresses it maps to [pa, flags]; page_table is None as <<>>    *)
(* and Some(table) as <<table>>.                                           *)

KernelImagePages == 2
FreeRamPages == 4
MaxImagePages == 2
MaxCreates == 3

VIRTIO_BLK_PADDR == 268439552

\* let kernel_base = &raw const __kernel_base as usize
kernel_base == FreeRamBase - KernelImagePages * PAGE_SIZE

\* let free_ram_end = &raw const __free_ram_end as usize
free_ram_end == FreeRamBase + FreeRamPages * PAGE_SIZE

\* (kernel_base..free_ram_end).step_by(PAGE_SIZE)
kernel_range_short(from, to) ==
    {from + k * PAGE_SIZE : k \in 0 .. (to - from - 1) \div PAGE_SIZE - 1}

kernel_range(from, to) ==
    {from + k * PAGE_SIZE : k \in 0 .. (to - from - 1) \div PAGE_SIZE}

\* map_page(table, vaddr, paddr, flags): the leaf for vaddr is paddr with
\* flags | V
map_page(table, vaddr, paddr, flags) ==
    [v \in DOMAIN table \union {vaddr} |->
        IF v = vaddr THEN [pa |-> paddr, flags |-> flags \union {"V"}]
        ELSE table[v]]

RECURSIVE MapAll(_, _, _)
\* for paddr in pages { map_page(table, paddr, paddr, flags) }
MapAll(table, pages, flags) ==
    IF pages = {} THEN table
    ELSE LET pg == CHOOSE x \in pages : TRUE
         IN  MapAll(map_page(table, pg, pg, flags), pages \ {pg}, flags)

InitPage ==
    /\ KernelAtRest
    /\ ctl = [pc |-> "cp_idle", i |-> 0, image |-> 0, created |-> 0,
              procs |-> [i \in Slots |-> [state |-> "Unused",
                                          page_table |-> <<>>]]]

\* create_process up to process.page_table = Some(page_table), for a kernel
\* process (image of 0 pages) or a user image of up to MaxImagePages pages
CpMapKernel ==
    /\ ctl.pc = "cp_idle"
    /\ ctl.created < MaxCreates
    /\ \E image \in 0 .. MaxImagePages :
          LET i == CHOOSE k \in Slots :
                      /\ ctl.procs[k].state = "Unused"
                      /\ \A j \in Slots :
                            ctl.procs[j].state = "Unused" => k <= j
              t1 == MapAll(<<>>, kernel_range(kernel_base, free_ram_end),
                           {"R", "W", "X"})
              t2 == map_page(t1, VIRTIO_BLK_PADDR, VIRTIO_BLK_PADDR,
                             {"R", "W"})
          IN  ctl' = [ctl EXCEPT !.pc = "cp_user", !.i = i, !.image = image,
                                 !.created = ctl.created + 1,
                                 !.procs[i].page_table = <<t2>>]
    /\ RestUnchanged

\* if !is_kernel { ... }: the image's pages at USER_BASE + i * PAGE_SIZE,
\* backed by the pages of the leaked copy of the image in free RAM
CpMapUser ==
    /\ ctl.pc = "cp_user"
    /\ LET t == ctl.procs[ctl.i].page_table[1]
           user == [v \in {USER_BASE + k * PAGE_SIZE :
                              k \in 0 .. ctl.image - 1} |->
                       [pa |-> FreeRamBase + (v - USER_BASE),
                        flags |-> {"U", "R", "W", "X", "V"}]]
       IN  ctl' = [ctl EXCEPT
                      !.pc = "cp_fields",
                      !.procs[ctl.i].page_table =
                          <<[v \in DOMAIN t \union DOMAIN user |->
                                IF v \in DOMAIN user THEN user[v]
                                ELSE t[v]]>>]
    /\ RestUnchanged

\* process.state = State::Runnable
CpInitFields ==
    /\ ctl.pc = "cp_fields"
    /\ ctl' = [ctl EXCEPT !.pc = "cp_idle",
                          !.procs[ctl.i].state = "Runnable"]
    /\ RestUnchanged

\* SYS_EXIT: p.state = State::Exited
PageExit ==
    /\ ctl.pc = "cp_idle"
    /\ \E i \in Slots :
          /\ ctl.procs[i].state = "Runnable"
          /\ ctl' = [ctl EXCEPT !.procs[i].state = "Exited"]
    /\ RestUnchanged

NextPage == CpMapKernel \/ CpMapUser \/ CpInitFields \/ PageExit

SpecPage == InitPage /\ [][NextPage]_vars

\* C29: every slot that is not Unused has a page table that identity-maps
\* each page of [kernel_base, free_ram_end) with V, R, W, X and without U,
\* and the virtio-blk page with V, R, W; as the invariant holds in the
\* state where the slot becomes Runnable, the table is installed before.
C29_KernelIdentityMapped ==
    \A i \in Slots :
        ctl.procs[i].state # "Unused"
            => /\ ctl.procs[i].page_table # <<>>
               /\ LET t == ctl.procs[i].page_table[1]
                  IN  /\ \A k \in 0 .. KernelImagePages + FreeRamPages - 1 :
                            LET a == kernel_base + k * PAGE_SIZE
                            IN  /\ a \in DOMAIN t
                                /\ t[a] = [pa |-> a,
                                           flags |-> {"V", "R", "W", "X"}]
                      /\ VIRTIO_BLK_PADDR \in DOMAIN t
                      /\ t[VIRTIO_BLK_PADDR] =
                            [pa |-> VIRTIO_BLK_PADDR,
                             flags |-> {"V", "R", "W"}]

C29_Witness ==
    /\ ctl.pc = "cp_fields"
    /\ ctl.i = 2
    /\ ctl.image = MaxImagePages
    /\ ctl.procs[0].state = "Exited"
    /\ ctl.procs[1].state = "Runnable"
    /\ ctl.procs[2].state = "Unused"
    /\ ctl.procs[2].page_table # <<>>
    /\ USER_BASE + PAGE_SIZE \in DOMAIN ctl.procs[2].page_table[1]


---------------------------------------------------------------------------
(* The bump allocator.  The cursor and the ends of the window are page     *)
(* aligned, so addresses are kept as page numbers: usize holds UsizePages  *)
(* pages.  The window lies where the linker script puts it: at the model's *)
(* FreeRamBase, or at the same offset above the base of RAM (0x8000_0000). *)

MaxAllocs == 3

UsizePages == 1048576
RamBasePage == 524288

\* align_up(value, align), value > 0
align_up(value, align) == ((value - 1) \div align + 1) * align

\* The largest size a Layout holds (isize::MAX), down to a whole page
MaxLayoutSize == (UsizePages \div 2 - 1) * PAGE_SIZE

AllocSizes == {1, PAGE_SIZE, PAGE_SIZE + 1, 2 * PAGE_SIZE, MaxLayoutSize}

\* paddr.as_usize() + aligned_size on usize: an overflow panics in a build
\* with overflow checks and wraps in a build without
usize_add_exact(a, b, checks) == [panic |-> FALSE, v |-> a + b]

usize_add(a, b, checks) ==
    IF a + b < UsizePages THEN [panic |-> FALSE, v |-> a + b]
    ELSE IF checks THEN [panic |-> TRUE, v |-> 0]
    ELSE [panic |-> FALSE, v |-> (a + b) % UsizePages]

InitAlloc ==
    /\ KernelAtRest
    /\ \E base \in {0, RamBasePage}, checks \in BOOLEAN :
          ctl = [pc |-> "al_idle", n |-> 0, checks |-> checks,
                 free_ram |-> base + FreeRamBase \div PAGE_SIZE,
                 free_ram_end |-> base + free_ram_end \div PAGE_SIZE,
                 next_paddr |-> <<>>, size |-> 0, ret |-> 0, msg |-> "",
                 allocs |-> <<>>]

\* *next_paddr, after get_or_insert_with
Cursor(c) == IF c.next_paddr = <<>> THEN c.free_ram ELSE c.next_paddr[1]

\* BumpAllocator::alloc for a layout of the given size
Alloc ==
    /\ ctl.pc = "al_idle"
    /\ ctl.n < MaxAllocs
    /\ \E size \in AllocSizes :
          LET paddr == Cursor(ctl)
              aligned_size == align_up(size, PAGE_SIZE) \div PAGE_SIZE
              new_paddr == usize_add(paddr, aligned_size, ctl.checks)
              c == [ctl EXCEPT !.n = ctl.n + 1, !.size = size,
                               !.next_paddr = <<paddr>>]
          IN  IF new_paddr.panic
              THEN ctl' = [c EXCEPT !.pc = "panic",
                                    !.msg = "attempt to add with overflow"]
              ELSE IF new_paddr.v > ctl.free_ram_end
              THEN ctl' = [c EXCEPT !.pc = "panic", !.msg = "out of memory"]
              ELSE ctl' = [c EXCEPT
                              !.next_paddr = <<new_paddr.v>>,
                              !.ret = paddr,
                              !.allocs = Append(ctl.allocs,
                                                <<paddr, aligned_size>>)]
    /\ RestUnchanged

NextAlloc == Alloc

SpecAlloc == InitAlloc /\ [][NextAlloc]_vars

\* The allocations made so far are disjoint, increasing and inside
\* [free_ram, free_ram_end).
AllocsInWindow ==
    \A k \in 1 .. Len(ctl.allocs) :
        /\ ctl.free_ram <= ctl.allocs[k][1]
        /\ ctl.allocs[k][1] + ctl.allocs[k][2] <= ctl.free_ram_end
        /\ k > 1 => ctl.allocs[k - 1][1] + ctl.allocs[k - 1][2]
                        <= ctl.allocs[k][1]

\* C30: alloc panics with "out of memory" exactly when cursor +
\* align_up(size, 4096) would exceed free_ram_end, leaving the cursor
\* unchanged; otherwise it returns the old cursor and advances it by the
\* page-aligned size; allocations are disjoint, increasing and inside
\* [free_ram, free_ram_end).
C30_AllocOutOfMemory ==
    /\ [][ctl'.n = ctl.n + 1
            => IF Cursor(ctl) + align_up(ctl'.size, PAGE_SIZE) \div PAGE_SIZE
                    > ctl.free_ram_end
               THEN /\ ctl'.pc = "panic"
                    /\ ctl'.msg = "out of memory"
                    /\ Cursor(ctl') = Cursor(ctl)
               ELSE /\ ctl'.pc = "al_idle"
                    /\ ctl'.ret = Cursor(ctl)
                    /\ Cursor(ctl') = Cursor(ctl)
                         + align_up(ctl'.size, PAGE_SIZE) \div PAGE_SIZE]_vars
    /\ [](ctl.pc = "al_idle" => AllocsInWindow)


---------------------------------------------------------------------------
(* The panic handler *)

\* C31: once the panic handler has written sstatus, supervisor interrupts
\* are disabled and stay disabled: no step is taken any more, so no trap
\* handler runs, no context switch occurs, and PROCS and CURRENT_PROC never
\* change again.
C31_PanicHalts ==
    [][ctl.pc = "panic"
        => /\ ~HasBit(sstatus, SSTATUS_SIE)
           /\ mode = "S"
           /\ UNCHANGED <<ctl, sstatus, procs, current_proc, sp, satp, mem>>
      ]_vars

C31_Witness ==
    /\ ctl.pc = "panic"
    /\ timer_armed
    /\ ticks < MaxTicks
    /\ \E i \in Slots : procs[i].state = "Exited"


---------------------------------------------------------------------------
(* The first switch *)

\* C32: the switch_context that leaves the bootstrap stack writes no
\* process's sp; a yield_now that returns early keeps the first-switch flag;
\* every switch that leaves a process's stack stores the outgoing sp,
\* and nothing else, into that process's PCB; and no switch_context ever
\* continues on the bootstrap stack.
C32_FirstSwitchDiscardsBootSp ==
    /\ [][(ctl.pc = "yn_switch" /\ ctl'.pc = "sw_restored")
            => IF Region(sp) \in Slots
               THEN procs' = [procs EXCEPT ![Region(sp)].sp =
                                 sp - SwitchImageWords * WORD]
               ELSE procs' = procs]_vars
    /\ [][(ctl.pc = "yn_scan_locked" /\ ctl'.pc = "yn_ret")
            => first_switch' = first_switch]_vars
    /\ [](ctl.pc = "sw_restored" => Region(sp) \in Slots)


---------------------------------------------------------------------------
(* get_timer.  The time counter is one number; rdtime reads it modulo      *)
(* LowWordValues (2^32 on the machine) and rdtimeh reads the rest.  It     *)
(* advances between any two instructions, up to MaxCounter.                *)

LowWordValues == 4
MaxCounter == 11

InitTimer ==
    /\ KernelAtRest
    /\ \E c \in 0 .. LowWordValues - 1 :
          ctl = [pc |-> "gt_h", counter |-> c, ticksh |-> 0, ticksl |-> 0,
                 ticksh_check |-> 0, at |-> 0, retries |-> 0, ret |-> 0]

\* The counter's next tick
MtimeAdvance ==
    /\ ctl.counter < MaxCounter
    /\ ctl' = [ctl EXCEPT !.counter = ctl.counter + 1]
    /\ RestUnchanged

\* rdtimeh ticksh; rdtime ticksl; rdtimeh ticksh_check
GetTimerRead ==
    /\ \/ /\ ctl.pc = "gt_h"
          /\ ctl' = [ctl EXCEPT !.pc = "gt_l",
                                !.ticksh = ctl.counter \div LowWordValues]
       \/ /\ ctl.pc = "gt_l"
          /\ ctl' = [ctl EXCEPT !.pc = "gt_h_check",
                                !.ticksl = ctl.counter % LowWordValues,
                                !.at = ctl.counter]
       \/ /\ ctl.pc = "gt_h_check"
          /\ ctl' = [ctl EXCEPT !.pc = "gt_if",
                                !.ticksh_check =
                                    ctl.counter \div LowWordValues]
    /\ RestUnchanged

\* if ticksh_check == ticksh { break }
get_timer_break_always(ticksh, ticksh_check) == TRUE

get_timer_break(ticksh, ticksh_check) == ticksh_check = ticksh

\* The end of the loop body, and ((ticksh as u64) << 32) | (ticksl as u64)
GetTimerCheck ==
    /\ ctl.pc = "gt_if"
    /\ IF get_timer_break(ctl.ticksh, ctl.ticksh_check)
       THEN ctl' = [ctl EXCEPT
                       !.pc = "gt_ret",
                       !.ret = ctl.ticksh * LowWordValues + ctl.ticksl]
       ELSE ctl' = [ctl EXCEPT !.pc = "gt_h",
                               !.retries = ctl.retries + 1]
    /\ RestUnchanged

NextTimer == MtimeAdvance \/ GetTimerRead \/ GetTimerCheck

SpecTimer == InitTimer /\ [][NextTimer]_vars

\* C33: get_timer returns the value the counter held at the instant of the
\* rdtime that it used, so never a high and a low word from opposite sides
\* of a wrap of the low word, and it retries exactly when the two reads of
\* the high word differ.
C33_GetTimerNotTorn ==
    /\ [](ctl.pc = "gt_ret" => ctl.ret = ctl.at)
    /\ [][(ctl.pc = "gt_if" /\ ctl'.pc # "gt_if")
            => IF ctl.ticksh # ctl.ticksh_check
               THEN ctl'.pc = "gt_h"
               ELSE ctl'.pc = "gt_ret"]_vars

C33_Witness ==
    /\ ctl.pc = "gt_ret"
    /\ ctl.retries = 1
    /\ ctl.ticksh = 2
    /\ ctl.ticksl = 0
    /\ ctl.counter > ctl.ret


---------------------------------------------------------------------------
(* CURRENT_PROC and the executing stack *)

\* C34: whenever a trap can be delivered (user mode, or sstatus.SIE set in
\* the kernel), CURRENT_PROC is the pid of the process whose kernel stack
\* the hart executes on, or, in user mode, would enter through sscratch;
\* the bootstrap stack belongs to no process and is left out.
C34_CurrentProcNamesExecutingStack ==
    /\ ( /\ mode = "S"
         /\ HasBit(sstatus, SSTATUS_SIE)
         /\ ctl.pc \notin Terminal
         /\ Region(sp) \in Slots )
       => procs[Region(sp)].pid = current_proc
    /\ ( /\ mode = "U"
         /\ Region(sscratch) \in Slots )
       => procs[Region(sscratch)].pid = current_proc


---------------------------------------------------------------------------
(* Leaving the bootstrap context *)

\* C35: when the hart has left the bootstrap stack for the stack of a
\* process, every process kernel_main creates (A, B and the shell, in the
\* slots after idle's) has been created: Runnable, or Exited later on.
C35_AllCreatedBeforeFirstSwitch ==
    Region(sp) \in Slots
        => \A i \in 1 .. Len(KernelMainEntries) : procs[i].state # "Unused"

============================================================================
